---- MODULE Spec2Model ----
(***************************************************************************)
(* Transportation core of the city simulator: the Commuter entity, the     *)
(* CommuteManager daily cycle, the grid, the road graph and the two        *)
(* A* path finders (graph based PathFinding, grid based GridPathFinding    *)
(* with its path cache).                                                   *)
(*                                                                         *)
(* Every component has its own specification over its own variables; the   *)
(* variables of the other components keep their initial value.             *)
(*   SpecCommuter : Commuter.ts driven directly (startCommute, setSpeed,   *)
(*                  resetSpeed, update)                                    *)
(*   SpecCommute  : CommuteManager.update() ticks over a population        *)
(*   SpecBudget   : either of the two above                                *)
(*   SpecPath     : Grid edits, GridPathFinding.findPath and clearCache    *)
(*   SpecGraph    : Grid edits, RoadNetwork.buildFromGrid and PathFinding  *)
(*   SpecRoutes   : either of the two path finders                         *)
(*   SpecVehicle  : Vehicle.ts driven directly (setPath, speed, update)    *)
(*   SpecTraffic  : TrafficSimulator over an edited grid and its network   *)
(*   SpecCity     : CommuteManager and TrafficSimulator over one grid      *)
(*                                                                         *)
(* Numbers.  currentPathIndex and the speeds are JavaScript doubles; the   *)
(* model keeps them in units of 1/IndexScale and only uses multiples of    *)
(* 1/8, for which double addition is exact.  Infinity is a saturating      *)
(* sentinel.                                                               *)
(***************************************************************************)
EXTENDS Integers, Sequences, FiniteSets, TLC

(* ------------------------------------------------------------------ *)
(* Bounds of the model                                                  *)
(* ------------------------------------------------------------------ *)
\* largest maxCommuteTime given to a directly driven commuter
CmMaxBudget == 8
\* longest path (in nodes) handed to a directly driven commuter or vehicle
MaxPathLen == 5
\* number of update() calls followed on a directly driven commuter or vehicle
MaxUpdates == 10
\* largest maxCommuteTime set on the CommuteManager
MaxBudget == 3
\* largest simulationInterval set on the CommuteManager
MaxInterval == 3
\* number of citizens
NumCitizens == 2
\* ticks followed past the budget in one cycle
MaxOverrun == 2
\* width of the grid; its height is one less
GridWidth == 3
\* MAX_CACHE_SIZE of GridPathFinding, 1000 in the source, scaled down so that
\* the eviction of the oldest entry happens
MaxCacheSize == 2
\* grid edits (placeRoad, clearCell) made in a run of SpecPath
MaxEdits == 1
\* findPath calls made in a run of SpecPath
MaxQueries == 5
\* maxIterations of both aStar loops, 10000 in the source (a quarter of the
\* 200 x 200 cells of the game's grid), scaled down with the grid so that a
\* search that needs more iterations than the cap happens
MaxIterations == 6
MaxCongested == 1

(* ------------------------------------------------------------------ *)
(* Values shared by the components                                      *)
(* ------------------------------------------------------------------ *)
\* Number.POSITIVE_INFINITY
Infinity == 1000000

\* fixed-point unit of currentPathIndex / currentSpeed / baseSpeed
IndexScale == 8

\* a Position { x, y }
Pos(x, y) == [x |-> x, y |-> y]

\* `${x},${y}`: the node id of a position
PositionToId(pos) == <<pos.x, pos.y>>

\* id.split(',').map(Number): the position of a node id
IdToPosition(id) == [x |-> id[1], y |-> id[2]]

\* the Path returned when there is no route
NoPath == [nodes |-> <<>>, totalCost |-> Infinity, distance |-> 0, exists |-> FALSE]

\* Commuter.path = null
NullPath == [isNull |-> TRUE]

\* a straight path of n nodes (0,0) .. (n-1,0), as the unit tests build it
StraightPath(n) ==
  [nodes |-> [i \in 1..n |-> <<i - 1, 0>>],
   totalCost |-> n - 1, distance |-> n - 1, exists |-> TRUE]

(* ------------------------------------------------------------------ *)
(* Commuter (src/src/economy/Commuter.ts)                               *)
(* ------------------------------------------------------------------ *)
\* this.baseSpeed = 0.5
BaseSpeed == IndexScale \div 2

\* new Commuter(citizenId, homeLocation, workLocation, maxCommuteTime)
NewCommuter(id, home, work, maxTime) ==
  [citizenId |-> id, homeLocation |-> home, workLocation |-> work,
   state |-> "WAITING", path |-> NullPath, currentPathIndex |-> 0,
   commuteTime |-> 0, maxCommuteTime |-> maxTime,
   baseSpeed |-> BaseSpeed, currentSpeed |-> BaseSpeed]

\* Commuter.startCommute(path)
StartCommute(c, path) ==
  IF ~path.exists
    THEN [c EXCEPT !.state = "FAILED"]
    ELSE [c EXCEPT !.path = path, !.currentPathIndex = 0,
                   !.commuteTime = 0, !.state = "COMMUTING"]

\* the test of the budget in Commuter.update(): commuteTime > maxCommuteTime
BudgetAtLimit(time, maxTime) == time >= maxTime
BudgetPassedByTwo(time, maxTime) == time > maxTime + 1
BudgetExceeded(time, maxTime) == time > maxTime

\* the test of arrival in Commuter.update(): index >= nodes.length - 1
ArrivedPastEnd(index, path) == index > (Len(path.nodes) - 1) * IndexScale
HasArrived(index, path) == index >= (Len(path.nodes) - 1) * IndexScale

\* Commuter.update(): the commuter after the call
CommuterUpdateUnguarded(c) ==
  IF c.state = "WAITING" THEN c
  ELSE IF c.path = NullPath THEN [c EXCEPT !.state = "FAILED"]
  ELSE LET t == c.commuteTime + 1 IN
       IF BudgetExceeded(t, c.maxCommuteTime)
         THEN [c EXCEPT !.commuteTime = t, !.state = "FAILED"]
         ELSE LET i == c.currentPathIndex + c.currentSpeed IN
              IF HasArrived(i, c.path)
                THEN [c EXCEPT !.commuteTime = t, !.currentPathIndex = i,
                               !.state = "AT_WORK"]
                ELSE [c EXCEPT !.commuteTime = t, !.currentPathIndex = i]
CommuterUpdate(c) ==
  IF c.state # "COMMUTING" THEN c
  ELSE IF c.path = NullPath THEN [c EXCEPT !.state = "FAILED"]
  ELSE LET t == c.commuteTime + 1 IN
       IF BudgetExceeded(t, c.maxCommuteTime)
         THEN [c EXCEPT !.commuteTime = t, !.state = "FAILED"]
         ELSE LET i == c.currentPathIndex + c.currentSpeed IN
              IF HasArrived(i, c.path)
                THEN [c EXCEPT !.commuteTime = t, !.currentPathIndex = i,
                               !.state = "AT_WORK"]
                ELSE [c EXCEPT !.commuteTime = t, !.currentPathIndex = i]

\* Commuter.update(): the value returned (true: complete or failed)
CommuterUpdateReturns(c) ==
  IF c.state # "COMMUTING" THEN c.state # "WAITING"
  ELSE CommuterUpdate(c).state # "COMMUTING"

\* Commuter.setSpeed(speed): Math.max(0, speed)
SetSpeed(c, speed) == [c EXCEPT !.currentSpeed = IF speed > 0 THEN speed ELSE 0]

\* Commuter.resetSpeed()
ResetSpeed(c) == [c EXCEPT !.currentSpeed = c.baseSpeed]

\* Commuter.getCurrentEdge(): <<from, to>>, or <<>> for null
GetCurrentEdge(c) ==
  IF c.path = NullPath \/ c.state # "COMMUTING" THEN <<>>
  ELSE LET currentNodeIndex == c.currentPathIndex \div IndexScale IN
       IF currentNodeIndex >= Len(c.path.nodes) - 1 THEN <<>>
       ELSE <<c.path.nodes[currentNodeIndex + 1], c.path.nodes[currentNodeIndex + 2]>>

\* Commuter.hasFailed() / hasSucceeded()
HasFailed(c) == c.state = "FAILED"
HasSucceeded(c) == c.state = "AT_WORK"

(* ------------------------------------------------------------------ *)
(* Cell (src/src/core/Cell.ts) and Grid (src/src/core/Grid.ts)          *)
(* A grid is a function from the cell ids <<x, y>> to cells.            *)
(* ------------------------------------------------------------------ *)
GridHeight == GridWidth - 1

\* getCell(x, y) = null
NullCell == [isNull |-> TRUE]

NoConnections == [north |-> FALSE, east |-> FALSE, south |-> FALSE, west |-> FALSE]

\* new Cell(x, y)
NewCell ==
  [type |-> "empty", zoneType |-> "none", roadType |-> "undefined",
   roadConnections |-> NoConnections, trafficDensity |-> 0]

\* Grid.initialize()
NewGrid == [c \in (0..(GridWidth - 1)) \X (0..(GridHeight - 1)) |-> NewCell]

\* Grid.isValidPosition(x, y)
IsValidPosition(x, y) == x >= 0 /\ x < GridWidth /\ y >= 0 /\ y < GridHeight

\* Grid.getCell(x, y)
GetCell(g, x, y) == IF ~IsValidPosition(x, y) THEN NullCell ELSE g[<<x, y>>]

\* Cell.isRoad()
IsRoad(cell) == cell.type = "road"

\* getCell(x, y)?.isRoad() ?? false
IsRoadAt(g, x, y) == IsValidPosition(x, y) /\ IsRoad(g[<<x, y>>])

\* Cell.setRoad(roadType)
SetRoad(cell, roadType) ==
  [cell EXCEPT !.type = "road", !.roadType = roadType, !.zoneType = "none"]

\* Cell.setZone(zoneType): a road is not zoned over
CellSetZone(cell, zoneType) ==
  IF cell.type = "road" THEN cell
  ELSE [cell EXCEPT !.zoneType = zoneType,
                    !.type = IF zoneType \in {"residential", "commercial", "industrial"}
                               THEN zoneType ELSE "empty"]

\* Cell.clear()
Clear(cell) ==
  [cell EXCEPT !.type = "empty", !.zoneType = "none", !.roadType = "undefined",
               !.roadConnections = NoConnections, !.trafficDensity = 0]

\* Grid.updateRoadConnections(x, y)
NoRoadConnections(g, x, y) == g
UpdateRoadConnections(g, x, y) ==
  IF ~IsRoadAt(g, x, y) THEN g
  ELSE [g EXCEPT ![<<x, y>>].roadConnections =
          [north |-> IsRoadAt(g, x, y - 1), east |-> IsRoadAt(g, x + 1, y),
           south |-> IsRoadAt(g, x, y + 1), west |-> IsRoadAt(g, x - 1, y)]]

\* the four neighbour updates of placeRoad and clearCell: north, east, south, west
UpdateNeighborConnections(g, x, y) ==
  UpdateRoadConnections(
    UpdateRoadConnections(
      UpdateRoadConnections(
        UpdateRoadConnections(g, x, y - 1), x + 1, y), x, y + 1), x - 1, y)

\* Grid.placeRoad(x, y, roadType): the grid afterwards
PlaceRoad(g, x, y, roadType) ==
  IF ~IsValidPosition(x, y) THEN g
  ELSE UpdateNeighborConnections(
         UpdateRoadConnections([g EXCEPT ![<<x, y>>] = SetRoad(@, roadType)], x, y), x, y)

\* Grid.setZone(x, y, zoneType): the grid afterwards
SetZone(g, x, y, zoneType) ==
  IF ~IsValidPosition(x, y) THEN g
  ELSE [g EXCEPT ![<<x, y>>] = CellSetZone(@, zoneType)]

\* what placeRoad, setZone and clearCell return: false when getCell(x, y) is null
EditReturns(x, y) == IsValidPosition(x, y)

\* Grid.clearCell(x, y): the grid afterwards
ClearCellOnly(g, x, y) ==
  IF ~IsValidPosition(x, y) THEN g
  ELSE [g EXCEPT ![<<x, y>>] = Clear(@)]
ClearCell(g, x, y) ==
  IF ~IsValidPosition(x, y) THEN g
  ELSE IF IsRoad(g[<<x, y>>])
    THEN UpdateNeighborConnections([g EXCEPT ![<<x, y>>] = Clear(@)], x, y)
    ELSE [g EXCEPT ![<<x, y>>] = Clear(@)]

\* Grid.getAllCells(): row by row
GetAllCells ==
  [i \in 1..(GridWidth * GridHeight) |-> <<(i - 1) % GridWidth, (i - 1) \div GridWidth>>]

\* Grid.getRoadCells(): the ids of the road cells, in getAllCells order
GetRoadCells(g) ==
  LET isRoad(c) == IsRoad(g[c]) IN SelectSeq(GetAllCells, isRoad)

(* ------------------------------------------------------------------ *)
(* RoadNetwork (src/src/transport/RoadNetwork.ts)                       *)
(* nodes: id -> RoadNode, nodeOrder: the insertion order of the Map,    *)
(* edges: <<from, to>> -> RoadEdge.  Edge costs are in 1/CostScale.     *)
(* ------------------------------------------------------------------ *)
\* unit of an edge cost: (a + b) / 2 of tenths, times (1 + density / 200)
CostScale == 4000

\* new RoadNetwork(grid)
EmptyNetwork == [nodes |-> <<>>, nodeOrder |-> <<>>, edges |-> <<>>, largestComponent |-> {}]

\* nodes.get(id) = undefined, getEdgeBetween(..) = undefined
NullNode == [isNull |-> TRUE]
NullEdge == [isNull |-> TRUE]

\* RoadNetwork.isIntersection(cell)
IsIntersection(cell) ==
  Cardinality({d \in DOMAIN cell.roadConnections : cell.roadConnections[d]}) >= 3

\* RoadNetwork.createNode(cell)
CreateNode(net, g, c) ==
  [net EXCEPT
     !.nodes = (c :> [id |-> c, position |-> IdToPosition(c), connections |-> <<>>,
                      isIntersection |-> IsIntersection(g[c])]) @@ @,
     !.nodeOrder = IF c \in DOMAIN net.nodes THEN @ ELSE Append(@, c)]

\* roadTypeCost[cell.roadType || RoadType.SMALL], in tenths
RoadTypeCost(roadType) ==
  CASE roadType = "medium" -> 12
    [] roadType = "large" -> 10
    [] roadType = "highway" -> 5
    [] OTHER -> 15

\* RoadNetwork.calculateEdgeCost(fromCell, toCell), in 1/CostScale
CalculateEdgeCost(fromCell, toCell) ==
  (RoadTypeCost(fromCell.roadType) + RoadTypeCost(toCell.roadType))
    * (200 + fromCell.trafficDensity)

\* RoadNetwork.getLanesForRoadType / getSpeedLimitForRoadType
GetLanesForRoadType(roadType) ==
  CASE roadType = "medium" -> 4 [] roadType = "large" -> 6
    [] roadType = "highway" -> 8 [] OTHER -> 2
GetSpeedLimitForRoadType(roadType) ==
  CASE roadType = "medium" -> 50 [] roadType = "large" -> 70
    [] roadType = "highway" -> 100 [] OTHER -> 30

\* node.connections.push(id) unless it is included already or the node is missing
Connect(nodes, id, other) ==
  IF id \in DOMAIN nodes /\ \A i \in 1..Len(nodes[id].connections) :
                               nodes[id].connections[i] # other
    THEN [nodes EXCEPT ![id].connections = Append(@, other)]
    ELSE nodes

\* RoadNetwork.createEdge(fromCell, toX, toY, direction)
CreateOneWayEdge(net, g, from, toX, toY) ==
  IF ~IsRoadAt(g, toX, toY) \/ <<from, <<toX, toY>>>> \in DOMAIN net.edges
       \/ <<<<toX, toY>>, from>> \in DOMAIN net.edges THEN net
  ELSE [net EXCEPT !.edges = @ @@ (<<from, <<toX, toY>>>> :>
                      [from |-> from, to |-> <<toX, toY>>,
                       cost |-> CalculateEdgeCost(g[from], g[<<toX, toY>>]),
                       lanes |-> GetLanesForRoadType(g[from].roadType),
                       speedLimit |-> GetSpeedLimitForRoadType(g[from].roadType),
                       bidirectional |-> TRUE]),
                   !.nodes = Connect(Connect(@, from, <<toX, toY>>), <<toX, toY>>, from)]
CreateEdge(net, g, from, toX, toY) ==
  IF ~IsRoadAt(g, toX, toY) THEN net
  ELSE IF <<from, <<toX, toY>>>> \in DOMAIN net.edges
          \/ <<<<toX, toY>>, from>> \in DOMAIN net.edges THEN net
  ELSE LET to == <<toX, toY>>
           edge == [from |-> from, to |-> to,
                    cost |-> CalculateEdgeCost(g[from], g[to]),
                    lanes |-> GetLanesForRoadType(g[from].roadType),
                    speedLimit |-> GetSpeedLimitForRoadType(g[from].roadType),
                    bidirectional |-> TRUE]
       IN [net EXCEPT
             !.edges = @ @@ (<<from, to>> :> edge)
                         @@ (<<to, from>> :> [edge EXCEPT !.from = to, !.to = from]),
             !.nodes = Connect(Connect(@, from, to), to, from)]

\* RoadNetwork.createEdgesForCell(cell): north, east, south, west
CreateEdgesForCell(net, g, c) ==
  LET conn == g[c].roadConnections
      n == IF conn.north THEN CreateEdge(net, g, c, c[1], c[2] - 1) ELSE net
      e == IF conn.east THEN CreateEdge(n, g, c, c[1] + 1, c[2]) ELSE n
      so == IF conn.south THEN CreateEdge(e, g, c, c[1], c[2] + 1) ELSE e
  IN IF conn.west THEN CreateEdge(so, g, c, c[1] - 1, c[2]) ELSE so

\* the two loops of buildFromGrid over the road cells, from cell i on
RECURSIVE CreateNodes(_, _, _, _)
CreateNodes(net, g, cells, i) ==
  IF i > Len(cells) THEN net
  ELSE CreateNodes(CreateNode(net, g, cells[i]), g, cells, i + 1)

RECURSIVE CreateEdges(_, _, _, _)
CreateEdges(net, g, cells, i) ==
  IF i > Len(cells) THEN net
  ELSE CreateEdges(CreateEdgesForCell(net, g, cells[i]), g, cells, i + 1)

\* the component the dfs of findConnectedComponents collects around the nodes S
RECURSIVE Dfs(_, _)
Dfs(nodes, S) ==
  LET reached == S \cup UNION {{nodes[id].connections[i] :
                                  i \in 1..Len(nodes[id].connections)} :
                               id \in S \cap DOMAIN nodes}
  IN IF reached = S THEN S ELSE Dfs(nodes, reached)

\* RoadNetwork.findConnectedComponents(): the first largest component, the
\* components taken in the order of nodes.keys(), from node i on
FirstComponent(net, i, visited, largest) ==
  IF net.nodeOrder = <<>> THEN {} ELSE Dfs(net.nodes, {net.nodeOrder[1]})
RECURSIVE FindConnectedComponents(_, _, _, _)
FindConnectedComponents(net, i, visited, largest) ==
  IF i > Len(net.nodeOrder) THEN largest
  ELSE IF net.nodeOrder[i] \in visited
    THEN FindConnectedComponents(net, i + 1, visited, largest)
    ELSE LET component == Dfs(net.nodes, {net.nodeOrder[i]}) IN
         FindConnectedComponents(net, i + 1, visited \cup component,
           IF Cardinality(component) > Cardinality(largest) THEN component ELSE largest)

\* RoadNetwork.buildFromGrid(): the network afterwards
BuildFromGrid(g) ==
  LET built == CreateEdges(CreateNodes(EmptyNetwork, g, GetRoadCells(g), 1),
                           g, GetRoadCells(g), 1)
  IN [built EXCEPT !.largestComponent = FindConnectedComponents(built, 1, {}, {})]

\* RoadNetwork.getAllNodes(): the ids of the nodes, in the order of nodes.values()
GetAllNodes(net) == net.nodeOrder

\* RoadNetwork.getConnectedNodes(): the ids of the nodes returned
GetConnectedNodes(net) ==
  IF net.largestComponent = {} THEN {GetAllNodes(net)[i] : i \in 1..Len(GetAllNodes(net))}
  ELSE {id \in net.largestComponent : id \in DOMAIN net.nodes}

\* RoadNetwork.getNodeAtPosition(x, y) / getNode(id)
GetNode(net, id) == IF id \in DOMAIN net.nodes THEN net.nodes[id] ELSE NullNode
GetNodeAtPosition(net, x, y) == GetNode(net, <<x, y>>)

\* RoadNetwork.getNeighbors(nodeId): the ids of the connected nodes that exist
GetNeighbors(net, id) ==
  IF id \notin DOMAIN net.nodes THEN <<>>
  ELSE LET exists(n) == n \in DOMAIN net.nodes IN
       SelectSeq(net.nodes[id].connections, exists)

\* RoadNetwork.getEdgeBetween(fromId, toId)
GetEdgeBetween(net, from, to) ==
  IF <<from, to>> \in DOMAIN net.edges THEN net.edges[<<from, to>>]
  ELSE IF <<to, from>> \in DOMAIN net.edges THEN net.edges[<<to, from>>]
  ELSE NullEdge

\* RoadNetwork.needsRebuild()
RebuildWhenMoreRoads(net, g) == Len(GetRoadCells(g)) > Cardinality(DOMAIN net.nodes)
NeedsRebuild(net, g) == Len(GetRoadCells(g)) # Cardinality(DOMAIN net.nodes)

(* ------------------------------------------------------------------ *)
(* PriorityQueue (src/unnamed/part_012): a sequence of items, lowest    *)
(* priority first, first in first out among equal priorities            *)
(* ------------------------------------------------------------------ *)
\* PriorityQueue.enqueue(value, priority)
EnqueueBeforeEqual(items, value, priority) ==
  LET later == {i \in 1..Len(items) : priority <= items[i].priority} IN
  IF later = {} THEN Append(items, [value |-> value, priority |-> priority])
  ELSE SubSeq(items, 1, (CHOOSE i \in later : \A j \in later : i <= j) - 1)
       \o <<[value |-> value, priority |-> priority]>>
       \o SubSeq(items, CHOOSE i \in later : \A j \in later : i <= j, Len(items))
Enqueue(items, value, priority) ==
  LET later == {i \in 1..Len(items) : priority < items[i].priority} IN
  IF later = {} THEN Append(items, [value |-> value, priority |-> priority])
  ELSE SubSeq(items, 1, (CHOOSE i \in later : \A j \in later : i <= j) - 1)
       \o <<[value |-> value, priority |-> priority]>>
       \o SubSeq(items, CHOOSE i \in later : \A j \in later : i <= j, Len(items))

\* PriorityQueue.dequeue(): [value: what is returned, items: the items afterwards]
Undefined == [isNull |-> TRUE]
Dequeue(items) ==
  IF items = <<>> THEN [value |-> Undefined, items |-> <<>>]
  ELSE [value |-> Head(items).value, items |-> Tail(items)]

(* ------------------------------------------------------------------ *)
(* PathFinding (src/src/transport/PathFinding.ts): A* on the road graph *)
(* ------------------------------------------------------------------ *)
\* iterations > maxIterations: the test that leaves the loop of aStar, in
\* PathFinding and in GridPathFinding
CapNeverExceeded(iterations) == FALSE
CapExceeded(iterations) == iterations > MaxIterations

\* a + b on numbers that may be Infinity
Plus(a, b) == IF a >= Infinity \/ b >= Infinity THEN Infinity ELSE a + b

\* Math.sqrt(n) of a perfect square
Sqrt(n) == CHOOSE r \in 0..n : r * r = n

\* gScore.get(id) !== undefined ? gScore.get(id) : Infinity
ScoreIfDefined(score, id) == IF id \in DOMAIN score THEN score[id] ELSE Infinity

\* gScore.get(id) || Infinity: a missing score and the score 0 both give Infinity
ScoreOrInfinity(score, id) ==
  IF id \in DOMAIN score /\ score[id] # 0 THEN score[id] ELSE Infinity

\* map.set(key, value)
MapSet(map, key, value) ==
  IF key \in DOMAIN map THEN [map EXCEPT ![key] = value] ELSE map @@ (key :> value)

\* PathFinding.heuristic(nodeId1, nodeId2): Manhattan distance, in 1/CostScale
Heuristic(net, id1, id2) ==
  IF id1 \notin DOMAIN net.nodes \/ id2 \notin DOMAIN net.nodes THEN Infinity
  ELSE LET dx == net.nodes[id1].position.x - net.nodes[id2].position.x
           dy == net.nodes[id1].position.y - net.nodes[id2].position.y
       IN ((IF dx < 0 THEN -dx ELSE dx) + (IF dy < 0 THEN -dy ELSE dy)) * CostScale

\* the walk of reconstructPath back along cameFrom: <<path, totalCost>>
RECURSIVE WalkBack(_, _, _, _)
WalkBack(net, cameFrom, path, totalCost) ==
  IF Head(path) \notin DOMAIN cameFrom THEN <<path, totalCost>>
  ELSE LET edge == GetEdgeBetween(net, cameFrom[Head(path)], Head(path)) IN
       WalkBack(net, cameFrom, <<cameFrom[Head(path)]>> \o path,
                IF edge = NullEdge THEN totalCost ELSE totalCost + edge.cost)

\* the distance loop of reconstructPath: the sum of the step lengths from step i on
RECURSIVE PathDistance(_, _, _)
PathDistance(net, path, i) ==
  IF i > Len(path) - 1 THEN 0
  ELSE IF path[i] \in DOMAIN net.nodes /\ path[i + 1] \in DOMAIN net.nodes
    THEN LET dx == net.nodes[path[i + 1]].position.x - net.nodes[path[i]].position.x
             dy == net.nodes[path[i + 1]].position.y - net.nodes[path[i]].position.y
         IN Sqrt(dx * dx + dy * dy) + PathDistance(net, path, i + 1)
    ELSE PathDistance(net, path, i + 1)

\* PathFinding.reconstructPath(cameFrom, current)
ReconstructPath(net, cameFrom, current) ==
  LET walked == WalkBack(net, cameFrom, <<current>>, 0) IN
  [nodes |-> walked[1], totalCost |-> walked[2],
   distance |-> PathDistance(net, walked[1], 1), exists |-> TRUE]

\* the loop of aStar over the neighbours of current, from neighbour i on;
\* st = [openSet, cameFrom, gScore, fScore, iterations]
RECURSIVE ExploreNeighbors(_, _, _, _, _, _)
ExploreNeighbors(net, st, current, endId, neighbors, i) ==
  IF i > Len(neighbors) THEN st
  ELSE LET edge == GetEdgeBetween(net, current, neighbors[i]) IN
       IF edge = NullEdge
         THEN ExploreNeighbors(net, st, current, endId, neighbors, i + 1)
         ELSE LET tentativeGScore == Plus(ScoreOrInfinity(st.gScore, current), edge.cost)
                  f == Plus(tentativeGScore, Heuristic(net, neighbors[i], endId))
              IN IF tentativeGScore < ScoreOrInfinity(st.gScore, neighbors[i])
                   THEN ExploreNeighbors(net,
                          [st EXCEPT !.cameFrom = MapSet(@, neighbors[i], current),
                                     !.gScore = MapSet(@, neighbors[i], tentativeGScore),
                                     !.fScore = MapSet(@, neighbors[i], f),
                                     !.openSet = Enqueue(@, neighbors[i], f)],
                          current, endId, neighbors, i + 1)
                   ELSE ExploreNeighbors(net, st, current, endId, neighbors, i + 1)

\* the while loop of aStar: [path: the Path returned, iterations: the value of
\* `iterations` when the loop is left]
RECURSIVE AStarLoop(_, _, _)
AStarLoop(net, st, endId) ==
  IF st.openSet = <<>> THEN [path |-> NoPath, iterations |-> st.iterations]
  ELSE IF CapExceeded(st.iterations + 1)
    THEN [path |-> NoPath, iterations |-> st.iterations + 1]
  ELSE IF Head(st.openSet).value = endId
    THEN [path |-> ReconstructPath(net, st.cameFrom, endId),
          iterations |-> st.iterations + 1]
    ELSE AStarLoop(net,
           ExploreNeighbors(net,
             [st EXCEPT !.openSet = Tail(@), !.iterations = @ + 1],
             Head(st.openSet).value, endId,
             GetNeighbors(net, Head(st.openSet).value), 1),
           endId)

\* PathFinding.aStar(startId, endId), with the number of iterations made
AStarRun(net, startId, endId) ==
  IF startId \notin DOMAIN net.nodes \/ endId \notin DOMAIN net.nodes
    THEN [path |-> NoPath, iterations |-> 0]
  ELSE IF net.nodes[startId].connections = <<>> THEN [path |-> NoPath, iterations |-> 0]
  ELSE AStarLoop(net,
         [openSet |-> Enqueue(<<>>, startId, Heuristic(net, startId, endId)),
          cameFrom |-> <<>>,
          gScore |-> (startId :> 0),
          fScore |-> (startId :> Heuristic(net, startId, endId)),
          iterations |-> 0],
         endId)

\* PathFinding.aStar(startId, endId)
AStar(net, startId, endId) == AStarRun(net, startId, endId).path

\* PathFinding.findPath(start, end)
FindPath(net, start, end) ==
  IF GetNodeAtPosition(net, start.x, start.y) = NullNode
     \/ GetNodeAtPosition(net, end.x, end.y) = NullNode
    THEN NoPath
    ELSE AStar(net, PositionToId(start), PositionToId(end))

\* PathFinding.findPathBetweenNodes(startNodeId, endNodeId)
FindPathBetweenNodes(net, startNodeId, endNodeId) == AStar(net, startNodeId, endNodeId)

(* ------------------------------------------------------------------ *)
(* GridPathFinding (src/src/renderer/NetworkRenderer.ts, the class with *)
(* the path cache): A* over all cells of the grid.  pathCache is the    *)
(* sequence of its entries [key, path] in insertion order.              *)
(* ------------------------------------------------------------------ *)
\* ROAD_COST = 1.0, WALKING_COST = 5.0
RoadCost == 1
WalkingCost == 5

\* GridPathFinding.getCacheKey(start, end)
GetCacheKey(start, end) == <<start.x, start.y, end.x, end.y>>

\* GridPathFinding.clearCache()
KeepCache(cache) == cache
ClearCache(cache) == <<>>

\* !startCell || !endCell
NeverOffGrid(g, start, end) == FALSE
IsOffGrid(g, start, end) ==
  GetCell(g, start.x, start.y) = NullCell \/ GetCell(g, end.x, end.y) = NullCell

\* GridPathFinding.getNeighbors(pos): north, east, south, west, those on the grid
GridGetNeighbors(pos) ==
  LET onGrid(p) == IsValidPosition(p.x, p.y) IN
  SelectSeq(<<Pos(pos.x, pos.y - 1), Pos(pos.x + 1, pos.y),
              Pos(pos.x, pos.y + 1), Pos(pos.x - 1, pos.y)>>, onGrid)

\* GridPathFinding.getMovementCost(from, to)
RoadsOnlyCost(g, from, to) ==
  IF IsRoadAt(g, from.x, from.y) /\ IsRoadAt(g, to.x, to.y) THEN RoadCost ELSE Infinity
GetMovementCost(g, from, to) ==
  IF GetCell(g, from.x, from.y) = NullCell \/ GetCell(g, to.x, to.y) = NullCell
    THEN Infinity
    ELSE LET dx == IF to.x >= from.x THEN to.x - from.x ELSE from.x - to.x
             dy == IF to.y >= from.y THEN to.y - from.y ELSE from.y - to.y
         IN (dx + dy) *
            (IF IsRoad(g[PositionToId(from)]) /\ IsRoad(g[PositionToId(to)])
               THEN RoadCost
             ELSE IF IsRoad(g[PositionToId(from)]) \/ IsRoad(g[PositionToId(to)])
               THEN (RoadCost + WalkingCost) \div 2
             ELSE WalkingCost)

\* GridPathFinding.heuristic(from, to)
WalkingHeuristic(from, to) ==
  ((IF to.x >= from.x THEN to.x - from.x ELSE from.x - to.x)
   + (IF to.y >= from.y THEN to.y - from.y ELSE from.y - to.y)) * WalkingCost
GridHeuristic(from, to) ==
  ((IF to.x >= from.x THEN to.x - from.x ELSE from.x - to.x)
   + (IF to.y >= from.y THEN to.y - from.y ELSE from.y - to.y)) * RoadCost

\* the walk of reconstructPath back along cameFrom
RECURSIVE GridWalkBack(_, _)
GridWalkBack(cameFrom, pathIds) ==
  IF Head(pathIds) \notin DOMAIN cameFrom THEN pathIds
  ELSE GridWalkBack(cameFrom, <<cameFrom[Head(pathIds)]>> \o pathIds)

\* the distance loop of reconstructPath, from step i on
RECURSIVE GridPathDistance(_, _)
GridPathDistance(pathIds, i) ==
  IF i > Len(pathIds) - 1 THEN 0
  ELSE LET dx == IdToPosition(pathIds[i + 1]).x - IdToPosition(pathIds[i]).x
           dy == IdToPosition(pathIds[i + 1]).y - IdToPosition(pathIds[i]).y
       IN Sqrt(dx * dx + dy * dy) + GridPathDistance(pathIds, i + 1)

\* GridPathFinding.reconstructPath(cameFrom, currentId, totalCost)
GridReconstructPath(cameFrom, currentId, totalCost) ==
  [nodes |-> GridWalkBack(cameFrom, <<currentId>>), totalCost |-> totalCost,
   distance |-> GridPathDistance(GridWalkBack(cameFrom, <<currentId>>), 1),
   exists |-> TRUE]

\* the loop of aStar over the neighbours of current, from neighbour i on
RECURSIVE GridExploreNeighbors(_, _, _, _, _, _)
GridExploreNeighbors(g, st, current, end, neighbors, i) ==
  IF i > Len(neighbors) THEN st
  ELSE LET movementCost == GetMovementCost(g, current, neighbors[i])
           neighborId == PositionToId(neighbors[i])
           tentativeGScore ==
             Plus(ScoreIfDefined(st.gScore, PositionToId(current)), movementCost)
           f == Plus(tentativeGScore, GridHeuristic(neighbors[i], end))
       IN IF movementCost = Infinity
            THEN GridExploreNeighbors(g, st, current, end, neighbors, i + 1)
          ELSE IF tentativeGScore < ScoreIfDefined(st.gScore, neighborId)
            THEN GridExploreNeighbors(g,
                   [st EXCEPT !.cameFrom = MapSet(@, neighborId, PositionToId(current)),
                              !.gScore = MapSet(@, neighborId, tentativeGScore),
                              !.fScore = MapSet(@, neighborId, f),
                              !.openSet = Enqueue(@, neighborId, f)],
                   current, end, neighbors, i + 1)
            ELSE GridExploreNeighbors(g, st, current, end, neighbors, i + 1)

\* the while loop of aStar: [path: the Path returned, iterations: the value of
\* `iterations` when the loop is left]
RECURSIVE GridAStarLoop(_, _, _)
GridAStarLoop(g, st, end) ==
  IF st.openSet = <<>> THEN [path |-> NoPath, iterations |-> st.iterations]
  ELSE IF CapExceeded(st.iterations + 1)
    THEN [path |-> NoPath, iterations |-> st.iterations + 1]
  ELSE IF Head(st.openSet).value = PositionToId(end)
    THEN [path |->
            GridReconstructPath(st.cameFrom, PositionToId(end),
              IF PositionToId(end) \in DOMAIN st.gScore
                THEN st.gScore[PositionToId(end)] ELSE 0),
          iterations |-> st.iterations + 1]
    ELSE GridAStarLoop(g,
           GridExploreNeighbors(g,
             [st EXCEPT !.openSet = Tail(@), !.iterations = @ + 1],
             IdToPosition(Head(st.openSet).value), end,
             GridGetNeighbors(IdToPosition(Head(st.openSet).value)), 1),
           end)

\* GridPathFinding.aStar(start, end), with the number of iterations made
GridAStarRun(g, start, end) ==
  GridAStarLoop(g,
    [openSet |-> Enqueue(<<>>, PositionToId(start), GridHeuristic(start, end)),
     cameFrom |-> <<>>,
     gScore |-> (PositionToId(start) :> 0),
     fScore |-> (PositionToId(start) :> GridHeuristic(start, end)),
     iterations |-> 0],
    end)

\* GridPathFinding.aStar(start, end)
GridAStar(g, start, end) == GridAStarRun(g, start, end).path

\* pathCache.get(key): the position of the entry, 0 when there is none
NeverCached(cache, key) == 0
LastCachedIndex(cache, key) ==
  IF \E i \in 1..Len(cache) : cache[i].key = key THEN Len(cache) ELSE 0
CacheIndex(cache, key) ==
  IF \E i \in 1..Len(cache) : cache[i].key = key
    THEN CHOOSE i \in 1..Len(cache) : cache[i].key = key
    ELSE 0

\* GridPathFinding.findPath(start, end): [path: the Path returned, cache: pathCache afterwards]
GridFindPathRefreshing(g, cache, start, end) ==
  LET cacheKey == GetCacheKey(start, end)
      cached == CacheIndex(cache, cacheKey)
      path == GridAStar(g, start, end)
      others(e) == e.key # cacheKey
  IN IF IsOffGrid(g, start, end) THEN [path |-> NoPath, cache |-> cache]
     ELSE IF cached # 0
       THEN [path |-> cache[cached].path,
             cache |-> Append(SelectSeq(cache, others), cache[cached])]
     ELSE [path |-> path,
           cache |-> Append(IF Len(cache) >= MaxCacheSize THEN Tail(cache) ELSE cache,
                            [key |-> cacheKey, path |-> path])]
GridFindPath(g, cache, start, end) ==
  LET cacheKey == GetCacheKey(start, end)
      cached == CacheIndex(cache, cacheKey)
      path == GridAStar(g, start, end)
  IN IF IsOffGrid(g, start, end) THEN [path |-> NoPath, cache |-> cache]
     ELSE IF cached # 0 THEN [path |-> cache[cached].path, cache |-> cache]
     ELSE [path |-> path,
           cache |-> Append(IF Len(cache) >= MaxCacheSize THEN Tail(cache) ELSE cache,
                            [key |-> cacheKey, path |-> path])]

\* GridPathFinding.getCacheStats()
GetCacheStats(cache) == [size |-> Len(cache), maxSize |-> MaxCacheSize]

(* ------------------------------------------------------------------ *)
(* Citizen and CommuteManager (src/unnamed/part_003)                    *)
(* ------------------------------------------------------------------ *)
\* homeLocation / workLocation = null
NullLocation == [isNull |-> TRUE]


\* Citizen.removeJob()
RemoveJob(cz) ==
  IF cz.employmentStatus = "RETIRED" THEN cz
  ELSE [cz EXCEPT !.workLocation = NullLocation,
                  !.employmentStatus = "UNEMPLOYED", !.income = 0]

\* private congestionSlowdownFactor = 0.1, as the divisor 1 / 0.1
CongestionSlowdownDivisor == 10

\* Math.random() < slowdown / 10
SkipChanceDenominator == 10

\* Math.min(100, count * 5)
DensityPerCommuter == 5
DensityCap == 100

\* Math.floor(congestion * this.congestionSlowdownFactor)
Slowdown(congestion) == congestion \div CongestionSlowdownDivisor

\* slowdown > 0 && Math.random() < slowdown / 10, Math.random() in [0, 1):
\* the draws for which the commuter's update is skipped, and those for which
\* it is not
MaySkip(slowdown) == slowdown > 0
MayNotSkip(slowdown) == slowdown < SkipChanceDenominator

\* (map.get(key) || 0) + 1
Increment(map, key) ==
  IF key \in DOMAIN map THEN [map EXCEPT ![key] = @ + 1] ELSE map @@ (key :> 1)

\* this.roadCongestion.get(edgeId) || 0
CongestionOf(rc, edge) == IF edge \in DOMAIN rc THEN rc[edge] ELSE 0

\* CommuteManager.trackRoadUsage(pathNodes), from index i on
RECURSIVE TrackRoadUsage(_, _, _)
TrackRoadUsage(rc, pathNodes, i) ==
  IF i > Len(pathNodes) - 1 THEN rc
  ELSE TrackRoadUsage(Increment(rc, <<pathNodes[i], pathNodes[i + 1]>>), pathNodes, i + 1)

\* the condition of startCommuteSimulation under which a citizen commutes
Commutes(cz) ==
  /\ cz.employmentStatus = "EMPLOYED"
  /\ cz.homeLocation # NullLocation
  /\ cz.workLocation # NullLocation

\* the periodic trigger of CommuteManager.update()
StartsEarly(ticks, interval) == ticks + 1 >= interval
ShouldStart(ticks, interval) == ticks >= interval

\* the commuters a finished cycle reports: commuter.hasFailed()
AllCommuters(cs) == DOMAIN cs
FailedCitizens(cs) == {id \in DOMAIN cs : HasFailed(cs[id])}

\* CommuteManager.handleFailedCommutes(citizenIds): the citizens afterwards
HandleFailedCommutes(czs, citizenIds) ==
  [id \in DOMAIN czs |-> IF id \in citizenIds THEN RemoveJob(czs[id]) ELSE czs[id]]

\* the end-of-tick test of updateCommuters: activeCount === 0
FinishesWhenActive(activeCount) == activeCount # 0
CycleFinished(activeCount) == activeCount = 0

\* the largest number of a finite non-empty set of numbers
MaxOver(S) == CHOOSE v \in S : \A w \in S : w <= v

\* CommuteManager.updateGridTrafficDensity(congestion): every road cell is
\* reset to 0, then both cells of each edge get max(own, min(100, count * 5))
UpdateGridTrafficDensity(g, congestion) ==
  [c \in DOMAIN g |->
     [g[c] EXCEPT !.trafficDensity =
        MaxOver({IF IsRoad(g[c]) THEN 0 ELSE @}
                \cup { IF congestion[e] * DensityPerCommuter < DensityCap
                         THEN congestion[e] * DensityPerCommuter ELSE DensityCap :
                       e \in {e \in DOMAIN congestion : e[1] = c \/ e[2] = c} })]]

(* ------------------------------------------------------------------ *)
(* Vehicle (src/src/transport/Vehicle.ts)                               *)
(* Speeds and positions are in 1/VScale of a cell, the step of the      *)
(* smallest speed change (decelerate(0.005)).                           *)
(* ------------------------------------------------------------------ *)
VScale == 200

\* the position of a cell in vehicle units
ToVehiclePosition(pos) == [x |-> pos.x * VScale, y |-> pos.y * VScale]

\* Math.sqrt(dx * dx + dy * dy), rounded down when it is not whole
Distance(dx, dy) ==
  LET ax == IF dx < 0 THEN -dx ELSE dx
      ay == IF dy < 0 THEN -dy ELSE dy
  IN IF ay = 0 THEN ax
     ELSE IF ax = 0 THEN ay
     ELSE CHOOSE r \in 0..(ax + ay) :
            r * r <= ax * ax + ay * ay /\ (r + 1) * (r + 1) > ax * ax + ay * ay

\* the maxSpeed the constructor sets for a vehicle type
MaxSpeedOf(type) ==
  CASE type = "car" -> 2 * VScale
    [] type = "bus" -> (3 * VScale) \div 2
    [] type = "truck" -> (6 * VScale) \div 5
    [] OTHER -> VScale

\* new Vehicle(id, type, start, destination)
NewVehicle(id, type, start, destination) ==
  [id |-> id, type |-> type,
   position |-> ToVehiclePosition(start),
   targetPosition |-> ToVehiclePosition(start),
   destination |-> ToVehiclePosition(destination),
   path |-> NullPath, currentPathIndex |-> 0,
   state |-> "moving", speed |-> 0, maxSpeed |-> MaxSpeedOf(type),
   waitTime |-> 0, totalTravelTime |-> 0, distanceTraveled |-> 0]

\* Vehicle.setPath(path)
SetPath(v, path) ==
  [v EXCEPT !.path = path, !.currentPathIndex = 0,
            !.state = IF Len(path.nodes) > 0 THEN "moving" ELSE @]

\* Vehicle.update: distance < 0.1, the vehicle counts as being at its target
AtTarget(distance) == distance < VScale \div 10

\* Vehicle.update(cellSize)
VehicleUpdate(v) ==
  IF v.path = NullPath \/ v.state = "arrived" THEN v
  ELSE IF v.state = "waiting"
    THEN [v EXCEPT !.totalTravelTime = @ + 1, !.waitTime = @ + 1]
  ELSE
    LET dx == v.targetPosition.x - v.position.x
        dy == v.targetPosition.y - v.position.y
        distance == Distance(dx, dy)
        moveSpeed == IF v.speed < distance THEN v.speed ELSE distance
    IN IF AtTarget(distance)
         THEN IF v.currentPathIndex + 1 >= Len(v.path.nodes)
                THEN [v EXCEPT !.totalTravelTime = @ + 1, !.currentPathIndex = @ + 1,
                               !.state = "arrived", !.speed = 0]
                ELSE [v EXCEPT !.totalTravelTime = @ + 1, !.currentPathIndex = @ + 1,
                               !.targetPosition =
                                  ToVehiclePosition(
                                    IdToPosition(v.path.nodes[v.currentPathIndex + 2]))]
         ELSE [v EXCEPT !.totalTravelTime = @ + 1,
                        !.position = [x |-> @.x + (dx * moveSpeed) \div distance,
                                      y |-> @.y + (dy * moveSpeed) \div distance],
                        !.distanceTraveled = @ + moveSpeed]

\* Vehicle.accelerate(amount) / decelerate(amount)
Accelerate(v, amount) ==
  [v EXCEPT !.speed = IF @ + amount < v.maxSpeed THEN @ + amount ELSE v.maxSpeed]
Unclamped(v, amount) == [v EXCEPT !.speed = @ - amount]
Decelerate(v, amount) == [v EXCEPT !.speed = IF @ - amount > 0 THEN @ - amount ELSE 0]

\* Vehicle.hasArrived()
VehicleHasArrived(v) == v.state = "arrived"

\* Vehicle.getCellPosition(): Math.floor of both coordinates
GetCellPosition(v) == <<v.position.x \div VScale, v.position.y \div VScale>>

(* ------------------------------------------------------------------ *)
(* PathFinding.findNearestRoadNode and TrafficSimulator                 *)
(* (src/unnamed/part_005 holds two versions of TrafficSimulator: the    *)
(* one with createCommuteVehicle and the one that spawns at random).    *)
(* updateCounter, read by console.log only, is left out.                *)
(* ------------------------------------------------------------------ *)
\* PathFinding.findNearestRoadNode(position): the first of the nearest nodes
FindNearestRoadNode(net, position) ==
  LET allNodes == GetAllNodes(net)
      d(i) == (net.nodes[allNodes[i]].position.x - position.x)
                * (net.nodes[allNodes[i]].position.x - position.x)
              + (net.nodes[allNodes[i]].position.y - position.y)
                * (net.nodes[allNodes[i]].position.y - position.y)
  IN IF Len(allNodes) = 0 THEN NullNode
     ELSE net.nodes[allNodes[CHOOSE i \in 1..Len(allNodes) :
                      \A j \in 1..Len(allNodes) : d(i) < d(j) \/ (d(i) = d(j) /\ i <= j)]]

\* spawnRate and maxVehicles of the version that spawns at random
SpawnRate == 30
DefaultMaxVehicles == 100

\* new TrafficSimulator(grid, network, pathFinding, cellSize)
NewTrafficSimulator(version) ==
  [version |-> version, vehicles |-> <<>>, order |-> <<>>, nextVehicleId |-> 0,
   spawnRate |-> SpawnRate, maxVehicles |-> DefaultMaxVehicles,
   totalVehiclesSpawned |-> 0, totalVehiclesArrived |-> 0, arrivedVehicles |-> <<>>]

\* the part of both spawners after the path was found: the vehicle is made,
\* given its path and 50-70% of its maximum speed, and added
AddVehicleSameId(sim, id, type, startNode, endNode, path, ratio) ==
  [sim EXCEPT
     !.vehicles = (id :> [SetPath(NewVehicle(id, type, startNode.position, endNode.position),
                                  path)
                            EXCEPT !.speed = (MaxSpeedOf(type) * ratio) \div 100]) @@ @,
     !.order = Append(@, id),
     !.totalVehiclesSpawned = @ + 1]
AddVehicle(sim, id, type, startNode, endNode, path, ratio) ==
  [sim EXCEPT
     !.vehicles = (id :> [SetPath(NewVehicle(id, type, startNode.position, endNode.position),
                                  path)
                            EXCEPT !.speed = (MaxSpeedOf(type) * ratio) \div 100]) @@ @,
     !.order = Append(@, id),
     !.nextVehicleId = @ + 1,
     !.totalVehiclesSpawned = @ + 1]

\* no vehicle was made: what a spawner returns then, with the path request
\* it issued, if any
NoRequest == [isNull |-> TRUE]
NoVehicle(sim, request) == [sim |-> sim, id |-> <<>>, request |-> request]

\* TrafficSimulator.createCommuteVehicle(start, end):
\* [sim: the simulator afterwards, id: the id returned, <<>> for null,
\*  request: the findPathBetweenNodes call made]
CreateCommuteVehicle(sim, net, start, end, ratio) ==
  LET startNode == FindNearestRoadNode(net, start)
      endNode == FindNearestRoadNode(net, end)
  IN IF Cardinality(GetConnectedNodes(net)) < 2 THEN NoVehicle(sim, NoRequest)
     ELSE IF startNode = NullNode \/ endNode = NullNode THEN NoVehicle(sim, NoRequest)
     ELSE IF startNode.id = endNode.id THEN NoVehicle(sim, NoRequest)
     ELSE LET path == FindPathBetweenNodes(net, startNode.id, endNode.id)
              request == [from |-> startNode.id, to |-> endNode.id,
                          connected |-> GetConnectedNodes(net)]
          IN IF ~path.exists THEN NoVehicle(sim, request)
             ELSE [sim |-> AddVehicle(sim, <<"commute", sim.nextVehicleId>>, "car",
                                      startNode, endNode, path, ratio),
                   id |-> <<"commute", sim.nextVehicleId>>,
                   request |-> request]

\* TrafficSimulator.spawnRandomVehicle() with the random choices made:
\* the start and end node, the vehicle type, the speed ratio
\* found: what this.pathFinding.findPathBetweenNodes(startId, endId) returns
SpawnWithPath(sim, net, startId, endId, found, type, ratio) ==
  IF Len(GetAllNodes(net)) < 2 THEN NoVehicle(sim, NoRequest)
  ELSE IF startId = endId THEN NoVehicle(sim, NoRequest)
  ELSE LET path == found
           request == [from |-> startId, to |-> endId,
                       connected |-> GetConnectedNodes(net)]
       IN IF ~path.exists THEN NoVehicle(sim, request)
          ELSE [sim |-> AddVehicle(sim, <<"v", sim.nextVehicleId>>, type,
                                   net.nodes[startId], net.nodes[endId], path, ratio),
                id |-> <<"v", sim.nextVehicleId>>,
                request |-> request]
SpawnRandomVehicle(sim, net, startId, endId, type, ratio) ==
  SpawnWithPath(sim, net, startId, endId, FindPathBetweenNodes(net, startId, endId),
                type, ratio)

\* TrafficSimulator.checkVehicleAhead(vehicle): another moving vehicle closer
\* than 1.5 cells in the direction of travel
CheckVehicleAhead(vehicles, id) ==
  \E o \in DOMAIN vehicles :
    LET dx == vehicles[o].position.x - vehicles[id].position.x
        dy == vehicles[o].position.y - vehicles[id].position.y
        targetDx == vehicles[id].targetPosition.x - vehicles[id].position.x
        targetDy == vehicles[id].targetPosition.y - vehicles[id].position.y
    IN /\ o # id
       /\ vehicles[o].state = "moving"
       /\ vehicles[id].path # NullPath /\ vehicles[o].path # NullPath
       /\ 4 * (dx * dx + dy * dy) < 9 * VScale * VScale
       /\ dx * targetDx + dy * targetDy > 0

\* TrafficSimulator.updateVehicleSpeed(vehicle): the vehicle afterwards
UpdateVehicleSpeed(vehicles, g, id) ==
  LET v == vehicles[id]
      cellPos == GetCellPosition(v)
  IN IF v.state # "moving" THEN v
     ELSE IF ~IsRoadAt(g, cellPos[1], cellPos[2]) THEN Decelerate(v, VScale \div 10)
     ELSE IF CheckVehicleAhead(vehicles, id) THEN Decelerate(v, VScale \div 20)
     ELSE IF g[cellPos].trafficDensity > 80 THEN Decelerate(v, (3 * VScale) \div 100)
     ELSE IF g[cellPos].trafficDensity > 50 THEN Decelerate(v, VScale \div 200)
     ELSE Accelerate(v, VScale \div 20)

\* the vehicle loop of update(), from the i-th vehicle on:
\* [vehicles, arrived: the ids of vehiclesToRemove in order]
RECURSIVE UpdateVehicles(_, _, _, _, _)
UpdateVehicles(vehicles, order, g, i, arrived) ==
  IF i > Len(order) THEN [vehicles |-> vehicles, arrived |-> arrived]
  ELSE LET moved == [vehicles EXCEPT ![order[i]] = VehicleUpdate(@)]
           adjusted == [moved EXCEPT ![order[i]] = UpdateVehicleSpeed(moved, g, order[i])]
       IN UpdateVehicles(adjusted, order, g, i + 1,
            IF VehicleHasArrived(adjusted[order[i]]) THEN Append(arrived, order[i])
            ELSE arrived)

\* the ids of a sequence
Range(seq) == {seq[i] : i \in 1..Len(seq)}

\* TrafficSimulator.smoothTrafficDensity(): every road cell with a road cell
\* among its 8 neighbours gets the average of its own density and theirs
\* (rounded down), all averages taken before any is written
SmoothTrafficDensity(g) ==
  LET roadNeighbors(c) ==
        {n \in DOMAIN g : /\ n # c
                          /\ n[1] - c[1] \in {-1, 0, 1}
                          /\ n[2] - c[2] \in {-1, 0, 1}
                          /\ IsRoad(g[n])}
      RECURSIVE Sum(_)
      Sum(S) == IF S = {} THEN 0
                ELSE LET n == CHOOSE n \in S : TRUE
                     IN g[n].trafficDensity + Sum(S \ {n})
  IN [c \in DOMAIN g |->
        IF IsRoad(g[c]) /\ roadNeighbors(c) # {}
          THEN [g[c] EXCEPT !.trafficDensity =
                  (@ + Sum(roadNeighbors(c))) \div (Cardinality(roadNeighbors(c)) + 1)]
          ELSE g[c]]

\* the density updateTrafficDensity writes before smoothing: 0 on every road
\* cell, then min(100, count / 5 * 100) where vehicles are
UncappedTrafficDensity(g, vehicles) ==
  [c \in DOMAIN g |->
     LET count == Cardinality({id \in DOMAIN vehicles : GetCellPosition(vehicles[id]) = c})
     IN IF ~IsRoad(g[c]) THEN g[c]
        ELSE [g[c] EXCEPT !.trafficDensity = count * 20]]
CountedTrafficDensity(g, vehicles) ==
  [c \in DOMAIN g |->
     LET count == Cardinality({id \in DOMAIN vehicles : GetCellPosition(vehicles[id]) = c})
     IN IF ~IsRoad(g[c]) THEN g[c]
        ELSE [g[c] EXCEPT !.trafficDensity =
                IF count = 0 THEN 0 ELSE IF count * 20 < 100 THEN count * 20 ELSE 100]]

\* TrafficSimulator.updateTrafficDensity(): the grid afterwards
UpdateTrafficDensity(g, vehicles) == SmoothTrafficDensity(CountedTrafficDensity(g, vehicles))

\* the vehicle loop and the removal of the arrived vehicles in update():
\* the simulator afterwards
UpdateAndKeep(sim, g) ==
  LET done == UpdateVehicles(sim.vehicles, sim.order, g, 1, <<>>)
  IN [sim EXCEPT
        !.vehicles = done.vehicles,
        !.totalVehiclesArrived = @ + Len(done.arrived),
        !.arrivedVehicles = IF sim.version = "commute" THEN @ \o done.arrived ELSE @]
UpdateAndRemove(sim, g) ==
  LET done == UpdateVehicles(sim.vehicles, sim.order, g, 1, <<>>)
      keep(id) == id \notin Range(done.arrived)
  IN [sim EXCEPT
        !.vehicles = IF DOMAIN done.vehicles \ Range(done.arrived) = {} THEN <<>>
                     ELSE [id \in DOMAIN done.vehicles \ Range(done.arrived) |->
                             done.vehicles[id]],
        !.order = SelectSeq(@, keep),
        !.totalVehiclesArrived = @ + Len(done.arrived),
        !.arrivedVehicles = IF sim.version = "commute" THEN @ \o done.arrived ELSE @]

\* TrafficSimulator.getAndClearArrivedVehicles(): the simulator afterwards
GetAndClearArrivedVehicles(sim) == [sim EXCEPT !.arrivedVehicles = <<>>]

\* TrafficSimulator.clearVehicles()
ClearVehicles(sim) == [sim EXCEPT !.vehicles = <<>>, !.order = <<>>]

\* TrafficSimulator.setMaxVehicles(max)
SetMaxVehicles(sim, max) == [sim EXCEPT !.maxVehicles = IF max > 0 THEN max ELSE 0]

(* ------------------------------------------------------------------ *)
(* State                                                                *)
(* ------------------------------------------------------------------ *)
VARIABLES
  \* --- SpecCommuter: one Commuter object and what its caller did ---
  cm,          \* the Commuter
  cmLog,       \* [updates, speedChanged, lastReturn, before]: calls since startCommute
  \* --- the city: shared by CommuteManager and the path finders ---
  grid,        \* Grid.cells: <<x, y>> -> Cell
  network,     \* RoadNetwork: [nodes, nodeOrder, edges, largestComponent]
  \* --- SpecCommute: CommuteManager and its collaborators ---
  citizens,              \* CitizenManager.getCitizens(): id -> Citizen
  commuters,             \* CommuteManager.commuters: citizenId -> Commuter
  roadCongestion,        \* CommuteManager.roadCongestion: edge -> commuter count
  simulationInterval,    \* CommuteManager.simulationInterval
  ticksSinceSimulation,  \* CommuteManager.ticksSinceSimulation
  isSimulating,          \* CommuteManager.isSimulating
  maxCommuteTime,        \* CommuteManager.maxCommuteTime
  cycle,                 \* observer: [started, ticks, elapsed, revoked] of the current cycle
  \* --- SpecPath: GridPathFinding and the callers of the path finders ---
  pathCache,   \* GridPathFinding.pathCache: sequence of [key, path], oldest first
  pq,          \* observer: the last findPath call followed [kind, start, end, grid, result, prev]
  memo,        \* observer: [pair, last]: the pair followed, what its last findPath returned
  calls,       \* observer: [edits, queries, stale, dropped] of the run so far
  \* --- SpecVehicle: one Vehicle object and what its caller did ---
  vh,          \* the Vehicle
  vhLog,       \* observer: [updates, speed, speedChanged]: calls since setPath
  \* --- SpecTraffic: the TrafficSimulator ---
  ts,          \* the TrafficSimulator: [version, vehicles, order, nextVehicleId, ..]
  tsLog,       \* observer: [request, returned, attempts]: the last spawn attempt, the attempts of the last update
  \* --- SpecEngine: the GameEngine ---
  engine,      \* GameEngine: [networkDirty, ticksSinceNetworkRebuild]
  engineLog,   \* observer: what the last call did and the ticks since markNetworkDirty()
  \* --- SpecQueue: one PriorityQueue ---
  items,       \* PriorityQueue.items
  queueLog     \* observer: [op, returned, before, enqueued] of the last call

cmVars == <<cm, cmLog>>
cityVars == <<grid, network>>
mgrVars == <<citizens, commuters, roadCongestion, simulationInterval,
             ticksSinceSimulation, isSimulating, maxCommuteTime, cycle>>
gpfVars == <<pathCache, pq, memo, calls>>
vhVars == <<vh, vhLog>>
tsVars == <<ts, tsLog>>
engVars == <<engine, engineLog>>
queueVars == <<items, queueLog>>
vars == <<cmVars, cityVars, mgrVars, gpfVars, vhVars, tsVars, engVars, queueVars>>

\* what a specification leaves alone
CmOthers == <<cityVars, mgrVars, gpfVars, vhVars, tsVars, engVars, queueVars>>
MgrOthers == <<cmVars, gpfVars, vhVars, tsVars, engVars, queueVars>>
PathOthers == <<cmVars, mgrVars, vhVars, tsVars, engVars, queueVars>>
VhOthers == <<cmVars, cityVars, mgrVars, gpfVars, tsVars, engVars, queueVars>>
TsOthers == <<cmVars, mgrVars, gpfVars, vhVars, engVars, queueVars>>

\* the components a specification does not drive stay as constructed
NoCommuter == [isNull |-> TRUE]
NoManager == [isNull |-> TRUE]
NoCall == [isNull |-> TRUE]
CmIdle ==
  /\ cm = NoCommuter
  /\ cmLog = [updates |-> 0]
CityIdle ==
  /\ grid = NewGrid
  /\ network = EmptyNetwork
MgrIdle ==
  /\ citizens = <<>>
  /\ commuters = <<>>
  /\ roadCongestion = <<>>
  /\ simulationInterval = 0
  /\ ticksSinceSimulation = 0
  /\ isSimulating = FALSE
  /\ maxCommuteTime = 0
  /\ cycle = NoManager
GpfIdle ==
  /\ pathCache = <<>>
  /\ pq = [kind |-> "none"]
  /\ memo = [pair |-> NoCall, last |-> NoCall]
  /\ calls = [edits |-> 0, queries |-> 0, stale |-> FALSE, dropped |-> FALSE]
NoVehicleObject == [isNull |-> TRUE]
NoSimulator == [isNull |-> TRUE]
VhIdle ==
  /\ vh = NoVehicleObject
  /\ vhLog = [updates |-> 0]
TsIdle ==
  /\ ts = NoSimulator
  /\ tsLog = NoCall
NoEngine == [isNull |-> TRUE]
EngIdle ==
  /\ engine = NoEngine
  /\ engineLog = NoCall
QueueIdle ==
  /\ items = <<>>
  /\ queueLog = NoCall

(* ------------------------------------------------------------------ *)
(* SpecCommuter: a Commuter driven directly through its public methods  *)
(* ------------------------------------------------------------------ *)
\* the speeds a caller sets: 0, 0.125, 0.25, 0.5, 1.0 path nodes per tick
SpeedInputs == {0, IndexScale \div 8, IndexScale \div 4, IndexScale \div 2, IndexScale}

PathInputs == {StraightPath(n) : n \in 1..MaxPathLen} \cup {NoPath}

CmLog0 == [updates |-> 0, speedChanged |-> FALSE, lastReturn |-> FALSE, before |-> "WAITING"]

CmInit ==
  /\ EngIdle /\ QueueIdle
  /\ \E n \in 0..CmMaxBudget :
       cm = NewCommuter("citizen1", [x |-> 0, y |-> 0], [x |-> 10, y |-> 10], n)
  /\ cmLog = CmLog0
  /\ CityIdle /\ MgrIdle /\ GpfIdle /\ VhIdle /\ TsIdle

\* a caller sets the speed before starting (the commuter is WAITING)
CmSetSpeed ==
  /\ cm # NoCommuter
  /\ cm.state = "WAITING"
  /\ \E s \in SpeedInputs : cm' = SetSpeed(cm, s)
  /\ UNCHANGED <<cmLog, CmOthers>>

\* a caller changes the speed while the commute is under way
CmChangeSpeed ==
  /\ cm # NoCommuter
  /\ cm.state = "COMMUTING"
  /\ \E s \in SpeedInputs :
       /\ s # cm.currentSpeed
       /\ cm' = SetSpeed(cm, s)
  /\ cmLog' = [cmLog EXCEPT !.speedChanged = TRUE]
  /\ UNCHANGED CmOthers

CmResetSpeed ==
  /\ cm # NoCommuter
  /\ cm.state = "COMMUTING"
  /\ cm.currentSpeed # cm.baseSpeed
  /\ cm' = ResetSpeed(cm)
  /\ cmLog' = [cmLog EXCEPT !.speedChanged = TRUE]
  /\ UNCHANGED CmOthers

CmStartCommute ==
  /\ cm # NoCommuter
  /\ cm.state = "WAITING"
  /\ \E p \in PathInputs : cm' = StartCommute(cm, p)
  /\ cmLog' = CmLog0
  /\ UNCHANGED CmOthers

CmUpdate ==
  /\ cm # NoCommuter
  /\ cmLog.updates < MaxUpdates
  /\ cm' = CommuterUpdate(cm)
  /\ cmLog' = [cmLog EXCEPT !.updates = @ + 1,
                            !.lastReturn = CommuterUpdateReturns(cm),
                            !.before = cm.state]
  /\ UNCHANGED CmOthers

CmNext == CmSetSpeed \/ CmChangeSpeed \/ CmResetSpeed \/ CmStartCommute \/ CmUpdate

SpecCommuter == CmInit /\ [][CmNext]_vars

\* ceil(a / b) for b > 0
CeilDiv(a, b) == (a + b - 1) \div b

\* the commuter was started on an existing path and its speed has not been
\* touched since: it moves at the constant speed cm.currentSpeed
CmConstantSpeedRun ==
  /\ cm.path # NullPath
  /\ ~cmLog.speedChanged
  /\ cm.currentSpeed > 0

\* ceil((n-1)/s) for the commuter's path and speed
CmTicksNeeded == CeilDiv((Len(cm.path.nodes) - 1) * IndexScale, cm.currentSpeed)

\* the update on which the commuter arrives: at least one update is needed
CmArrivalUpdate == IF CmTicksNeeded < 1 THEN 1 ELSE CmTicksNeeded

(* C3 (original statement): a commuter started on an existing path of n
   nodes, moving at constant speed s with a sufficient budget, is COMMUTING
   before update number ceil((n-1)/s), is AT_WORK from that update on, and
   its commuteTime is then ceil((n-1)/s). *)
C3_ArrivalAtCeil ==
  (CmConstantSpeedRun /\ cm.maxCommuteTime >= CmTicksNeeded) =>
     /\ cmLog.updates < CmTicksNeeded => cm.state = "COMMUTING"
     /\ cmLog.updates >= CmTicksNeeded =>
          (cm.state = "AT_WORK" /\ cm.commuteTime = CmTicksNeeded)

(* C3 (amended): the same with update number max(1, ceil((n-1)/s)): a
   commuter on a single-node path (n = 1) arrives on its first update, not
   on update 0. For n >= 2 this is ceil((n-1)/s), 8 for n = 5 and s = 0.5. *)
C3_ArrivalDeterminism ==
  (CmConstantSpeedRun /\ cm.maxCommuteTime >= CmArrivalUpdate) =>
     /\ cmLog.updates < CmArrivalUpdate => cm.state = "COMMUTING"
     /\ cmLog.updates >= CmArrivalUpdate =>
          (cm.state = "AT_WORK" /\ cm.commuteTime = CmArrivalUpdate)

\* the 5-node path at speed 0.5 has just arrived, on its 8th update
C3_Witness ==
  /\ CmConstantSpeedRun
  /\ Len(cm.path.nodes) = 5
  /\ cm.currentSpeed = BaseSpeed
  /\ cmLog.updates = 8
  /\ cmLog.before = "COMMUTING"
  /\ cm.state = "AT_WORK"
  /\ cm.commuteTime = 8

(* ------------------------------------------------------------------ *)
(* SpecCommute: CommuteManager.update() ticks over a population.        *)
(* The manager's grid has two joined road cells (0,0) and (1,0), a road *)
(* cell in the far corner with no road next to it, and no other road;   *)
(* its road network is either built from that grid or not built yet.    *)
(* ------------------------------------------------------------------ *)
Isolated == Pos(GridWidth - 1, GridHeight - 1)

MgrLayout ==
  PlaceRoad(PlaceRoad(PlaceRoad(NewGrid, 0, 0, "small"), 1, 0, "small"),
            Isolated.x, Isolated.y, "small")

Citizen(status, home, work) ==
  [employmentStatus |-> status, homeLocation |-> home, workLocation |-> work,
   income |-> IF status = "EMPLOYED" THEN 1 ELSE 0]

\* the citizens of the population: working at home on the road, commuting
\* along the road, living on the lone road cell, living off the road,
\* homeless, and without a job
CitizenInputs ==
  {Citizen("EMPLOYED", Pos(0, 0), Pos(0, 0)),
   Citizen("EMPLOYED", Pos(0, 0), Pos(1, 0)),
   Citizen("EMPLOYED", Isolated, Isolated),
   Citizen("EMPLOYED", Pos(0, 1), Pos(0, 0)),
   Citizen("EMPLOYED", NullLocation, Pos(0, 0)),
   Citizen("UNEMPLOYED", Pos(0, 0), NullLocation)}

CitizenIds == 1..NumCitizens

Cycle0 == [started |-> FALSE, ticks |-> 0, elapsed |-> 0,
           revoked |-> [id \in CitizenIds |-> 0]]

MgrInit ==
  /\ EngIdle /\ QueueIdle
  /\ grid = MgrLayout
  /\ network \in {EmptyNetwork, BuildFromGrid(MgrLayout)}
  /\ citizens \in [CitizenIds -> CitizenInputs]
  /\ commuters = <<>>
  /\ roadCongestion = <<>>
  /\ simulationInterval \in 1..MaxInterval
  /\ maxCommuteTime \in 0..MaxBudget
  /\ ticksSinceSimulation = 0
  /\ isSimulating = FALSE
  /\ cycle = Cycle0
  /\ CmIdle /\ GpfIdle /\ VhIdle /\ TsIdle

\* the commuter startCommuteSimulation creates for one citizen
CommuterWaiting(id, cz, path) ==
  IF path.exists
    THEN StartCommute(NewCommuter(id, cz.homeLocation, cz.workLocation, maxCommuteTime), path)
    ELSE NewCommuter(id, cz.homeLocation, cz.workLocation, maxCommuteTime)
CommuterFor(id, cz, path) ==
  IF path.exists
    THEN StartCommute(NewCommuter(id, cz.homeLocation, cz.workLocation, maxCommuteTime), path)
    ELSE [NewCommuter(id, cz.homeLocation, cz.workLocation, maxCommuteTime)
            EXCEPT !.state = "FAILED"]

\* the loop of startCommuteSimulation over getCitizens(), from citizen id on:
\* roadCongestion after trackRoadUsage of every existing path
RECURSIVE StartRoadUsage(_, _)
StartRoadUsage(rc, id) ==
  IF id \notin CitizenIds THEN rc
  ELSE IF /\ Commutes(citizens[id])
          /\ FindPath(network, citizens[id].homeLocation, citizens[id].workLocation).exists
    THEN StartRoadUsage(
           TrackRoadUsage(rc, FindPath(network, citizens[id].homeLocation,
                                       citizens[id].workLocation).nodes, 1),
           id + 1)
    ELSE StartRoadUsage(rc, id + 1)

\* CommuteManager.startCommuteSimulation()
StartCommuteSimulation ==
  /\ commuters' =
       [id \in {i \in CitizenIds : Commutes(citizens[i])} |->
          CommuterFor(id, citizens[id],
                      FindPath(network, citizens[id].homeLocation, citizens[id].workLocation))]
  /\ roadCongestion' = StartRoadUsage(<<>>, 1)
  /\ isSimulating' = TRUE

\* the commuters whose update the random draw of updateCommuters may skip,
\* and those it may leave unskipped
Skippable(id) ==
  /\ commuters[id].state = "COMMUTING"
  /\ GetCurrentEdge(commuters[id]) # <<>>
  /\ MaySkip(Slowdown(CongestionOf(roadCongestion, GetCurrentEdge(commuters[id]))))
Unskippable(id) ==
  IF Skippable(id)
    THEN MayNotSkip(Slowdown(CongestionOf(roadCongestion, GetCurrentEdge(commuters[id]))))
    ELSE TRUE

\* one commuter after its turn in the loop of updateCommuters
AfterTurn(c, skipped) ==
  IF c.state # "COMMUTING" THEN c
  ELSE IF skipped THEN [c EXCEPT !.commuteTime = @ + 1]
  ELSE CommuterUpdate(c)

\* new Map of the edges of the commuters that were updated and are not complete
RECURSIVE CurrentCongestion(_, _, _)
CurrentCongestion(cs, ids, acc) ==
  IF ids = {} THEN acc
  ELSE LET id == CHOOSE i \in ids : TRUE
           edge == GetCurrentEdge(cs[id]) IN
       CurrentCongestion(cs, ids \ {id},
                         IF edge # <<>> THEN Increment(acc, edge) ELSE acc)

\* CommuteManager.updateCommuters(), with the set of commuters whose update
\* the random draw skips
UpdateCommuters(skipped) ==
  LET after == [id \in DOMAIN commuters |-> AfterTurn(commuters[id], id \in skipped)]
      active == {id \in DOMAIN commuters :
                   commuters[id].state = "COMMUTING" /\ after[id].state = "COMMUTING"}
      tracked == active \ skipped
      failed == FailedCitizens(after)
  IN
  /\ commuters' = after
  /\ grid' = UpdateGridTrafficDensity(grid, CurrentCongestion(after, tracked, <<>>))
  /\ IF CycleFinished(Cardinality(active))
       THEN /\ isSimulating' = FALSE
            /\ citizens' = HandleFailedCommutes(citizens, failed)
            /\ cycle' = [cycle EXCEPT !.ticks = @ + 1, !.elapsed = @ + 1,
                           !.revoked = [id \in CitizenIds |->
                                          IF id \in failed THEN cycle.revoked[id] + 1
                                          ELSE cycle.revoked[id]]]
       ELSE /\ UNCHANGED <<isSimulating, citizens>>
            /\ cycle' = [cycle EXCEPT !.ticks = @ + 1, !.elapsed = @ + 1]
  /\ UNCHANGED roadCongestion

\* CommuteManager.update() while SIMULATING
MgrUpdateSimulating ==
  /\ cycle # NoManager
  /\ cycle.ticks < MaxBudget + MaxOverrun
  /\ isSimulating
  /\ ticksSinceSimulation' = ticksSinceSimulation + 1
  /\ \E skipped \in SUBSET DOMAIN commuters :
       /\ \A id \in skipped : Skippable(id)
       /\ \A id \in DOMAIN commuters \ skipped : Unskippable(id)
       /\ UpdateCommuters(skipped)
  /\ UNCHANGED <<network, simulationInterval, maxCommuteTime, MgrOthers>>

\* CommuteManager.update() while IDLE, on the periodic trigger
MgrUpdateStart ==
  /\ cycle # NoManager
  /\ ~isSimulating
  /\ ShouldStart(ticksSinceSimulation + 1, simulationInterval)
  /\ ticksSinceSimulation' = 0
  /\ StartCommuteSimulation
  /\ cycle' = [started |-> TRUE, ticks |-> 0, elapsed |-> 0,
               revoked |-> [id \in CitizenIds |-> 0]]
  /\ UNCHANGED <<citizens, cityVars, simulationInterval, maxCommuteTime, MgrOthers>>

\* CommuteManager.update() while IDLE, before the trigger
MgrUpdateIdle ==
  /\ cycle # NoManager
  /\ ~isSimulating
  /\ ~ShouldStart(ticksSinceSimulation + 1, simulationInterval)
  /\ ticksSinceSimulation' = ticksSinceSimulation + 1
  /\ cycle' = [cycle EXCEPT !.elapsed = @ + 1]
  /\ UNCHANGED <<citizens, commuters, roadCongestion, isSimulating, cityVars,
                 simulationInterval, maxCommuteTime, MgrOthers>>

\* CommuteManager.setMaxCommuteTime(ticks)
MgrSetMaxCommuteTime ==
  /\ cycle # NoManager
  /\ \E t \in 0..MaxBudget : t # maxCommuteTime /\ maxCommuteTime' = t
  /\ UNCHANGED <<citizens, commuters, roadCongestion, isSimulating, cityVars, cycle,
                 simulationInterval, ticksSinceSimulation, MgrOthers>>

\* CommuteManager.setSimulationInterval(ticks)
MgrSetSimulationInterval ==
  /\ cycle # NoManager
  /\ \E t \in 1..MaxInterval : t # simulationInterval /\ simulationInterval' = t
  /\ UNCHANGED <<citizens, commuters, roadCongestion, isSimulating, cityVars, cycle,
                 maxCommuteTime, ticksSinceSimulation, MgrOthers>>

MgrNext ==
  \/ MgrUpdateSimulating \/ MgrUpdateStart \/ MgrUpdateIdle
  \/ MgrSetMaxCommuteTime \/ MgrSetSimulationInterval

SpecCommute == MgrInit /\ [][MgrNext]_vars

\* the commuters of the current cycle that are still under way
Commuting == {id \in DOMAIN commuters : commuters[id].state = "COMMUTING"}

(* C1: once a commute cycle has ended (the manager is back to IDLE), the
   job revocation Citizen.removeJob has been called exactly once for every
   citizen whose commuter ended the cycle FAILED and never for a citizen
   whose commuter ended AT_WORK or who did not commute; the idle ticks that
   follow add no call, and no call is made while the cycle is running. *)
C1_RevokedOncePerFailure ==
  (cycle # NoManager /\ cycle.started) =>
    \A id \in CitizenIds :
      cycle.revoked[id] =
        IF ~isSimulating /\ id \in DOMAIN commuters /\ HasFailed(commuters[id])
          THEN 1 ELSE 0

\* a cycle ended with one commuter FAILED and one AT_WORK, and an idle tick
\* has passed since: the failed citizen lost the job, once
C1_Witness ==
  /\ cycle # NoManager /\ cycle.started /\ ~isSimulating
  /\ cycle.elapsed > cycle.ticks
  /\ \E f, w \in DOMAIN commuters :
       /\ HasFailed(commuters[f]) /\ cycle.revoked[f] = 1
       /\ citizens[f].employmentStatus = "UNEMPLOYED" /\ citizens[f].workLocation = NullLocation
       /\ HasSucceeded(commuters[w]) /\ cycle.revoked[w] = 0
       /\ citizens[w].employmentStatus = "EMPLOYED"

(* C4: every commute cycle terminates within the budget: after
   maxCommuteTime + 1 ticks of the cycle every commuter is AT_WORK or
   FAILED, and once a tick of the cycle has left no commuter COMMUTING the
   manager is back to IDLE. *)
C4_CycleTerminates ==
  (cycle # NoManager /\ cycle.started) =>
    /\ \A id \in DOMAIN commuters :
         cycle.ticks >= commuters[id].maxCommuteTime + 1 =>
           (HasSucceeded(commuters[id]) \/ HasFailed(commuters[id]))
    /\ (cycle.ticks >= 1 /\ Commuting = {}) => ~isSimulating

\* a cycle has ended in which a commuter that was under way ran out of budget
C4_Witness ==
  /\ cycle # NoManager /\ cycle.started /\ ~isSimulating /\ cycle.ticks >= 1
  /\ \E id \in DOMAIN commuters :
       /\ commuters[id].path # NullPath
       /\ HasFailed(commuters[id])
       /\ commuters[id].commuteTime = commuters[id].maxCommuteTime + 1

\* the step starts a new cycle
NewCycle == cycle' # cycle /\ cycle'.started /\ cycle'.elapsed = 0

(* C5: the manager follows IDLE -> SIMULATING -> IDLE.  A new cycle starts
   only from IDLE and only in an update() by which at least
   simulationInterval calls have been made since the previous cycle start;
   the manager becomes SIMULATING in no other way; an update() made while
   SIMULATING never starts a cycle, and it returns the manager to IDLE
   exactly when it leaves no commuter COMMUTING. *)
C5_CycleStateMachine ==
  [][ /\ NewCycle =>
           /\ ~isSimulating /\ isSimulating'
           /\ cycle.elapsed + 1 >= simulationInterval
      /\ (~isSimulating /\ isSimulating') => NewCycle
      /\ (isSimulating /\ cycle' # cycle) =>
           /\ ~NewCycle
           /\ DOMAIN commuters' = DOMAIN commuters
           /\ isSimulating' <=> (\E id \in DOMAIN commuters' :
                                   commuters'[id].state = "COMMUTING")
    ]_vars

\* the update() that left no commuter COMMUTING has just returned the manager
\* to IDLE, one tick after the cycle started with a commuter under way
C5_Witness ==
  /\ cycle # NoManager /\ cycle.started /\ ~isSimulating
  /\ cycle.ticks = 1 /\ cycle.elapsed = 1
  /\ \E id \in DOMAIN commuters :
       HasSucceeded(commuters[id]) /\ commuters[id].commuteTime = 1

(* ------------------------------------------------------------------ *)
(* SpecBudget: either a Commuter driven directly or a CommuteManager,   *)
(* the two ways in which a commuter is advanced                         *)
(* ------------------------------------------------------------------ *)
SpecBudget == (CmInit \/ MgrInit) /\ [][CmNext \/ MgrNext]_vars

\* the number of updates commuter c needs to arrive at its current speed
TicksNeeded(c) ==
  IF Len(c.path.nodes) = 1 THEN 1
  ELSE IF c.currentSpeed = 0 THEN Infinity
  ELSE CeilDiv((Len(c.path.nodes) - 1) * IndexScale, c.currentSpeed)

\* commuter c, advanced `ticks` times since it was started on an existing
\* path that needs more than its budget, is COMMUTING up to tick
\* maxCommuteTime and FAILED from tick maxCommuteTime + 1 on
FailsAtBudget(c, ticks) ==
  (c.path # NullPath /\ TicksNeeded(c) > c.maxCommuteTime) =>
    /\ ticks <= c.maxCommuteTime => c.state = "COMMUTING"
    /\ ticks >= c.maxCommuteTime + 1 =>
         (c.state = "FAILED" /\ c.commuteTime = c.maxCommuteTime + 1)

(* C2: a commuter started on an existing path with maxCommuteTime = N whose
   path needs more than N ticks at its speed is COMMUTING after each of its
   first N ticks and FAILED after tick N + 1, when Commuter.update is
   called directly and when CommuteManager.update advances it once per
   tick of the cycle. *)
C2_BudgetEnforced ==
  /\ (cm # NoCommuter /\ ~cmLog.speedChanged) => FailsAtBudget(cm, cmLog.updates)
  /\ (cycle # NoManager /\ cycle.started) =>
       \A id \in DOMAIN commuters : FailsAtBudget(commuters[id], cycle.ticks)

\* a directly driven commuter on the 5-node path with a budget of 3 ticks
\* has just failed, on its 4th update
C2_Witness ==
  /\ cm # NoCommuter /\ cm.path # NullPath /\ ~cmLog.speedChanged
  /\ Len(cm.path.nodes) = 5 /\ cm.currentSpeed = BaseSpeed
  /\ cm.maxCommuteTime = 3
  /\ cmLog.updates = 4 /\ cmLog.before = "COMMUTING"
  /\ cm.state = "FAILED"

\* commuter c is within its budget unless it has FAILED, and FAILED in the
\* update in which its commuteTime passed the budget
InBudget(c) ==
  /\ c.state = "COMMUTING" => c.commuteTime <= c.maxCommuteTime
  /\ c.state = "AT_WORK" => c.commuteTime <= c.maxCommuteTime
  /\ c.commuteTime > c.maxCommuteTime =>
       (c.state = "FAILED" /\ c.commuteTime = c.maxCommuteTime + 1)

(* C36: in every reachable state of a commute cycle, a commuter in state
   COMMUTING has commuteTime <= maxCommuteTime, the commuteTime of a commuter
   that reached AT_WORK is at most maxCommuteTime, and the commuteTime never
   passes the budget without the commuter becoming FAILED in that same
   tick; for a Commuter driven directly and for the commuters of
   CommuteManager. *)
C36_WithinBudget ==
  /\ cm # NoCommuter => InBudget(cm)
  /\ (cycle # NoManager /\ cycle.started) =>
       \A id \in DOMAIN commuters : InBudget(commuters[id])

\* a directly driven commuter whose speed was changed on the way has arrived
\* on the last update of its budget
C36_Witness ==
  /\ cm # NoCommuter /\ cm.path # NullPath /\ cmLog.speedChanged
  /\ cm.state = "AT_WORK" /\ cmLog.before = "COMMUTING"
  /\ cm.commuteTime = cm.maxCommuteTime /\ cm.commuteTime >= 2

\* the step is a call of Commuter.update() on the directly driven commuter
CmUpdateStep == cm # NoCommuter /\ cmLog'.updates = cmLog.updates + 1

\* the step is an update() of CommuteManager within a cycle
MgrCycleStep == cycle # NoManager /\ isSimulating /\ cycle' # cycle

(* C37: AT_WORK and FAILED are absorbing under Commuter.update(): a call on
   a commuter in either state returns true and leaves the commuter (state,
   commuteTime, currentPathIndex and all else) as it was; a call on a
   WAITING commuter returns false and changes nothing; and within a cycle
   CommuteManager leaves its AT_WORK and FAILED commuters as they are. *)
C37_FinishedIsAbsorbing ==
  [][ /\ CmUpdateStep =>
           /\ cm.state \in {"AT_WORK", "FAILED"} =>
                (cm' = cm /\ cmLog'.lastReturn = TRUE)
           /\ cm.state = "WAITING" => (cm' = cm /\ cmLog'.lastReturn = FALSE)
      /\ MgrCycleStep =>
           \A id \in DOMAIN commuters :
             commuters[id].state \in {"AT_WORK", "FAILED"} =>
               (id \in DOMAIN commuters' /\ commuters'[id] = commuters[id])
    ]_vars

\* update() was called a second time on a commuter that had arrived after
\* more than one update, and returned true
C37_Witness ==
  /\ cm # NoCommuter /\ cm.state = "AT_WORK" /\ cmLog.before = "AT_WORK"
  /\ cmLog.lastReturn = TRUE
  /\ cm.commuteTime >= 2 /\ cmLog.updates >= cm.commuteTime + 2

(* ------------------------------------------------------------------ *)
(* SpecPath: a Grid that is edited and a GridPathFinding over it.       *)
(* SpecGraph: a Grid that is edited, the RoadNetwork built from it and  *)
(* the PathFinding over that network.  SpecRoutes: either of the two.   *)
(* ------------------------------------------------------------------ *)
PointA == Pos(0, 0)
PointB == Pos(GridWidth - 1, 0)
PointC == Pos(1, 1)
PointOff == Pos(-1, 0)

\* the (start, end) pairs the callers of GridPathFinding ask for
GridPairs ==
  { <<PointA, PointB>>, <<PointA, PointC>>, <<PointC, PointB>>,
    <<PointA, PointOff>>, <<PointOff, PointOff>> }

\* the (start, end) pairs the callers of PathFinding ask for
GraphPairs ==
  { <<PointA, PointB>>, <<PointA, PointC>>, <<PointB, PointA>>,
    <<PointA, PointA>>, <<PointA, PointOff>> }

\* the cells the callers edit
EditCells == { <<1, 0>>, <<1, 1>> }

\* placeRoad for each cell of a sequence in turn
RECURSIVE PlaceRoads(_, _)
PlaceRoads(g, cells) ==
  IF cells = <<>> THEN g
  ELSE PlaceRoads(PlaceRoad(g, Head(cells)[1], Head(cells)[2], "small"), Tail(cells))

\* the road along row 0, and the road from PointA down, along row 1 and up to PointB
RowLayout == PlaceRoads(NewGrid, [i \in 1..GridWidth |-> <<i - 1, 0>>])
ULayout ==
  PlaceRoads(NewGrid,
    <<<<0, 0>>>> \o [i \in 1..GridWidth |-> <<i - 1, 1>>] \o <<<<GridWidth - 1, 0>>>>)

\* a single road cell at PointA and, apart from it, a longer road along row 1
\* whose last cell is a highway
SplitLayout ==
  PlaceRoad(PlaceRoads(NewGrid, <<<<0, 0>>>> \o [i \in 1..(GridWidth - 1) |-> <<i, 1>>]),
            GridWidth - 1, 1, "highway")

\* a run drives one of the two path finders: without a RoadNetwork it is
\* the GridPathFinding, with one it is the PathFinding over that network
NoNetwork == [isNull |-> TRUE]

PathInit ==
  /\ EngIdle /\ QueueIdle
  /\ grid \in {NewGrid, RowLayout, ULayout}
  /\ network = NoNetwork
  /\ pathCache = <<>>
  /\ pq = [kind |-> "none"]
  /\ memo \in {[pair |-> p, last |-> NoCall] : p \in GridPairs}
  /\ calls = [edits |-> 0, queries |-> 0, stale |-> FALSE, dropped |-> FALSE]
  /\ CmIdle
  /\ MgrIdle
  /\ VhIdle
  /\ TsIdle

GraphInit ==
  /\ EngIdle /\ QueueIdle
  /\ grid \in {NewGrid, RowLayout, ULayout, SplitLayout}
  /\ network = EmptyNetwork
  /\ GpfIdle
  /\ CmIdle
  /\ MgrIdle
  /\ VhIdle
  /\ TsIdle

\* what findPath of a newly constructed GridPathFinding returns on grid g
FreshPath(g, start, end) == GridFindPath(g, <<>>, start, end).path

\* every cell of the path is a road cell of g and the path has a step
IsRoadRoute(g, path) ==
  /\ path.exists
  /\ Len(path.nodes) >= 2
  /\ \A i \in 1..Len(path.nodes) : IsRoad(g[path.nodes[i]])

\* observer: the grid was edited after the last call of the pair followed;
\* cutCell is the road cell removed, <<>> when none was
MemoEdited(m, cutCell) ==
  IF m.last = NoCall THEN m
  ELSE [m EXCEPT !.last.edited = TRUE,
                 !.last.cut = @ \/ (m.last.roadRoute /\
                                    \E i \in 1..Len(m.last.result.nodes) :
                                       m.last.result.nodes[i] = cutCell)]

\* a caller places a road
PathPlaceRoad ==
  /\ calls.edits < MaxEdits
  /\ \E c \in EditCells :
       /\ grid' = PlaceRoad(grid, c[1], c[2], "small")
       /\ memo' = MemoEdited(memo, <<>>)
  /\ calls' = [calls EXCEPT !.edits = @ + 1, !.stale = @ \/ pathCache # <<>>]
  /\ UNCHANGED <<network, pathCache, pq, PathOthers>>

\* a caller clears a cell
PathClearCell ==
  /\ calls.edits < MaxEdits
  /\ \E c \in EditCells :
       /\ grid' = ClearCell(grid, c[1], c[2])
       /\ memo' = MemoEdited(memo, IF IsRoad(grid[c]) THEN c ELSE <<>>)
  /\ calls' = [calls EXCEPT !.edits = @ + 1, !.stale = @ \/ pathCache # <<>>]
  /\ UNCHANGED <<network, pathCache, pq, PathOthers>>

\* RoadNetwork.buildFromGrid()
PathBuildFromGrid ==
  /\ network # NoNetwork
  /\ network' = BuildFromGrid(grid)
  /\ calls' = [calls EXCEPT !.dropped = DOMAIN network.nodes \ DOMAIN network'.nodes # {}]
  /\ UNCHANGED <<grid, pathCache, pq, memo, PathOthers>>

\* the traffic densities a saved game holds for a cell
DensityInputs == {0, 50, 100}

\* SaveManager.load: cell.trafficDensity = cellData.trafficDensity
RestoreTrafficDensity(g, c, d) == [g EXCEPT ![c].trafficDensity = d]

\* the road cells of g that carry traffic
Congested(g) == {c \in DOMAIN g : IsRoad(g[c]) /\ g[c].trafficDensity > 0}

\* SaveManager.load(engine, slot) of a game saved on the present layout when
\* the road cell c had traffic density d; the network is rebuilt at its end
PathLoadSave ==
  /\ network # NoNetwork
  /\ \E c \in DOMAIN grid, d \in DensityInputs :
       /\ IsRoad(grid[c])
       /\ d # grid[c].trafficDensity
       /\ Cardinality(Congested(grid) \ {c}) < MaxCongested
       /\ grid' = RestoreTrafficDensity(grid, c, d)
       /\ network' = BuildFromGrid(grid')
  /\ UNCHANGED <<gpfVars, PathOthers>>

\* GridPathFinding.clearCache()
PathClearCache ==
  /\ network = NoNetwork
  /\ pathCache' = ClearCache(pathCache)
  /\ memo' = IF memo.last = NoCall THEN memo ELSE [memo EXCEPT !.last.cleared = TRUE]
  /\ calls' = [calls EXCEPT !.stale = FALSE]
  /\ UNCHANGED <<cityVars, pq, PathOthers>>

\* GridPathFinding.findPath(start, end)
PathGridFindPath ==
  /\ network = NoNetwork
  /\ calls.queries < MaxQueries
  /\ \E p \in GridPairs :
       LET found == GridFindPath(grid, pathCache, p[1], p[2])
           stored == Len(found.cache) > 0 /\ found.cache # pathCache
       IN /\ pathCache' = found.cache
          /\ IF p = memo.pair
               THEN /\ pq' = [kind |-> "grid", start |-> p[1], end |-> p[2], grid |-> grid,
                              result |-> found.path, prev |-> memo.last]
                    /\ memo' =
                         [memo EXCEPT !.last =
                            [result |-> found.path, edited |-> FALSE, cleared |-> FALSE,
                             misses |-> IF stored \/ memo.last = NoCall
                                          THEN 0 ELSE memo.last.misses,
                             stale |-> calls.stale, cut |-> FALSE,
                             roadRoute |-> IsRoadRoute(grid, found.path)]]
               ELSE /\ pq' = pq
                    /\ memo' =
                         IF stored /\ memo.last # NoCall /\ memo.last.misses < MaxCacheSize
                           THEN [memo EXCEPT !.last.misses = @ + 1]
                           ELSE memo
  /\ calls' = [calls EXCEPT !.queries = @ + 1]
  /\ UNCHANGED <<cityVars, PathOthers>>

\* PathFinding.findPath(start, end)
PathGraphFindPath ==
  /\ network # NoNetwork
  /\ \E p \in GraphPairs :
       pq' = [kind |-> "graph", start |-> p[1], end |-> p[2], grid |-> grid,
              network |-> network, result |-> FindPath(network, p[1], p[2])]
  /\ UNCHANGED <<cityVars, pathCache, memo, calls, PathOthers>>

\* PathFinding.findPathBetweenNodes(startNodeId, endNodeId)
PathFindPathBetweenNodes ==
  /\ network # NoNetwork
  /\ \E p \in GraphPairs :
       pq' = [kind |-> "nodes", start |-> p[1], end |-> p[2], grid |-> grid,
              network |-> network,
              result |-> FindPathBetweenNodes(network, PositionToId(p[1]), PositionToId(p[2]))]
  /\ UNCHANGED <<cityVars, pathCache, memo, calls, PathOthers>>

PathNext == PathPlaceRoad \/ PathClearCell \/ PathClearCache \/ PathGridFindPath

GraphNext ==
  \/ PathPlaceRoad \/ PathClearCell \/ PathBuildFromGrid \/ PathLoadSave
  \/ PathGraphFindPath \/ PathFindPathBetweenNodes

SpecPath == PathInit /\ [][PathNext]_vars
SpecGraph == GraphInit /\ [][GraphNext]_vars
SpecRoutes == (PathInit \/ GraphInit) /\ [][PathNext \/ GraphNext]_vars

\* the road cells reached from the cells S through adjacent road cells
RECURSIVE RoadReach(_, _)
RoadReach(g, S) ==
  LET step == S \cup {c \in DOMAIN g :
                        /\ IsRoad(g[c])
                        /\ \E d \in S : (c[1] - d[1]) * (c[1] - d[1])
                                        + (c[2] - d[2]) * (c[2] - d[2]) = 1}
  IN IF step = S THEN S ELSE RoadReach(g, step)

\* start and end are road cells joined through road cells
RoadConnected(g, start, end) ==
  /\ IsRoadAt(g, start.x, start.y)
  /\ IsRoadAt(g, end.x, end.y)
  /\ PositionToId(end) \in RoadReach(g, {PositionToId(start)})

\* the last call followed was made to GridPathFinding / to PathFinding
GridCall == pq.kind = "grid"
GraphCall == pq.kind \in {"graph", "nodes"}

\* PathFinding was asked for a pair with a missing node or with nodes in
\* different connected components of the network
NoGraphRoute ==
  \/ PositionToId(pq.start) \notin DOMAIN pq.network.nodes
  \/ PositionToId(pq.end) \notin DOMAIN pq.network.nodes
  \/ PositionToId(pq.end) \notin Dfs(pq.network.nodes, {PositionToId(pq.start)})

(* C6: a path finder asked for a pair without a route (a position off the
   grid for GridPathFinding; a position without a node, or nodes in
   different connected components, for PathFinding.findPath and
   findPathBetweenNodes) returns the Path with exists = false, no nodes and
   totalCost = Infinity; and every Path returned with exists = false has no
   nodes and totalCost = Infinity. *)
C6_NoPathSentinel ==
  /\ (GridCall \/ GraphCall) =>
       (~pq.result.exists =>
          (pq.result.nodes = <<>> /\ pq.result.totalCost = Infinity))
  /\ (GridCall /\ (~IsValidPosition(pq.start.x, pq.start.y)
                    \/ ~IsValidPosition(pq.end.x, pq.end.y))) => pq.result = NoPath
  /\ (GraphCall /\ NoGraphRoute) => pq.result = NoPath

\* PathFinding.findPath was asked for two nodes of a built network that lie
\* in different connected components, and returned the sentinel
C6_Witness ==
  /\ pq.kind = "graph"
  /\ pq.network = BuildFromGrid(pq.grid)
  /\ PositionToId(pq.start) \in DOMAIN pq.network.nodes
  /\ PositionToId(pq.end) \in DOMAIN pq.network.nodes
  /\ PositionToId(pq.end) \notin Dfs(pq.network.nodes, {PositionToId(pq.start)})
  /\ pq.result = NoPath

(* C7: on a grid whose graph was built with buildFromGrid, for two distinct
   road cells joined through road cells, where GridPathFinding's route
   stays on the roads, PathFinding.findPath and GridPathFinding.findPath
   both return an existing path, of the same distance. *)
C7_GraphGridEquivalence ==
  ( /\ pq.kind = "graph"
    /\ pq.network = BuildFromGrid(pq.grid)
    /\ pq.start # pq.end
    /\ RoadConnected(pq.grid, pq.start, pq.end)
    /\ IsRoadRoute(pq.grid, FreshPath(pq.grid, pq.start, pq.end)) )
  => /\ pq.result.exists
     /\ pq.result.distance = FreshPath(pq.grid, pq.start, pq.end).distance

\* the pair followed was asked for before, by the call pq.prev
Repeated == GridCall /\ pq.prev # NoCall

(* C8 (original statement): findPath(a, b) called twice with no grid
   mutation and no clearCache() in between returns the same Path both
   times, whatever other findPath calls happen in between. *)
C8_SameResultTwice ==
  (Repeated /\ ~pq.prev.edited /\ ~pq.prev.cleared) => pq.result = pq.prev.result

(* C8 (amended): the same, provided that at the first call no grid mutation
   had been made while the cache held entries without a clearCache() after
   it, or that fewer than MAX_CACHE_SIZE other pairs were stored in the
   cache since the pair's entry was. *)
C8_CacheStable ==
  ( /\ Repeated /\ ~pq.prev.edited /\ ~pq.prev.cleared
    /\ (~pq.prev.stale \/ pq.prev.misses < MaxCacheSize) )
  => pq.result = pq.prev.result

\* the second call found its entry evicted by other calls, computed the path
\* again and returned the same existing Path
C8_Witness ==
  /\ Repeated /\ ~pq.prev.edited /\ ~pq.prev.cleared
  /\ ~pq.prev.stale
  /\ pq.prev.misses = MaxCacheSize
  /\ pq.result.exists
  /\ pq.result = pq.prev.result

\* findPath(a, b) had returned a route along road cells, a road cell of it
\* was removed, the cache was cleared, and a and b are not joined by roads
RouteRemoved ==
  /\ Repeated
  /\ pq.prev.roadRoute /\ pq.prev.cut /\ pq.prev.cleared
  /\ ~RoadConnected(pq.grid, pq.start, pq.end)

(* C9 (original statement): after findPath(a, b) returned an existing path
   along the only road route, removing a road cell of that route and
   calling clearCache() makes the next findPath(a, b) return
   exists = false. *)
C9_RemovedRouteNoPath == RouteRemoved => ~pq.result.exists

\* the search from start to end on g ends within the iteration cap
WithinCap(g, start, end) == GridAStarRun(g, start, end).iterations <= MaxIterations

(* C9 (amended): it makes the next findPath(a, b) return the path computed
   on the current grid, which, when the search ends within its iteration
   cap, exists and leaves the roads: every cell is walkable, so a removed
   road only makes the route more expensive. *)
C9_RemovedRouteWalks ==
  (RouteRemoved /\ WithinCap(pq.grid, pq.start, pq.end)) =>
    /\ pq.result.exists
    /\ pq.result = FreshPath(pq.grid, pq.start, pq.end)
    /\ \E i \in 1..Len(pq.result.nodes) : ~IsRoad(pq.grid[pq.result.nodes[i]])

\* the route was removed and the next findPath returned a dearer path
C9_Witness ==
  /\ RouteRemoved
  /\ pq.result.exists
  /\ pq.result.totalCost > pq.prev.result.totalCost

(* C10 (original statement): after a road-layout change that is not
   followed by clearCache(), findPath(a, b) for a pair asked for before
   returns the path computed before the change; a path computed from the
   current grid is returned only after clearCache(). *)
C10_CacheNeverExpires ==
  (Repeated /\ pq.prev.edited /\ ~pq.prev.cleared) => pq.result = pq.prev.result

(* C10 (amended): findPath(a, b) returns the path returned before for as
   long as clearCache() was not called and fewer than MAX_CACHE_SIZE other
   pairs were stored since the pair's entry was; after clearCache(), or
   once MAX_CACHE_SIZE other pairs have been stored, it returns the path
   computed from the current grid. *)
C10_StaleUntilClearedOrEvicted ==
  Repeated =>
    /\ (~pq.prev.cleared /\ pq.prev.misses < MaxCacheSize) => pq.result = pq.prev.result
    /\ (pq.prev.cleared \/ pq.prev.misses >= MaxCacheSize) =>
         pq.result = FreshPath(pq.grid, pq.start, pq.end)

\* after a road-layout change without clearCache() the cached path was
\* returned although the current grid gives another one
C10_Witness ==
  /\ Repeated /\ pq.prev.edited /\ ~pq.prev.cleared
  /\ pq.prev.misses < MaxCacheSize
  /\ pq.result = pq.prev.result
  /\ pq.result # FreshPath(pq.grid, pq.start, pq.end)

(* C11: after any sequence of GridPathFinding.findPath and clearCache
   calls the number of cached entries never exceeds MAX_CACHE_SIZE, and
   each (start, end) coordinate pair has at most one entry. *)
C11_CacheBounded ==
  network = NoNetwork =>
    /\ GetCacheStats(pathCache).size <= GetCacheStats(pathCache).maxSize
    /\ \A i, j \in 1..Len(pathCache) :
         pathCache[i].key = pathCache[j].key => i = j

\* the cache is full and the pair followed, stored earlier and not cleared
\* since, has been evicted to make room
C11_Witness ==
  /\ network = NoNetwork
  /\ Len(pathCache) = MaxCacheSize
  /\ memo.last # NoCall /\ ~memo.last.cleared
  /\ IsValidPosition(memo.pair[1].x, memo.pair[1].y)
  /\ IsValidPosition(memo.pair[2].x, memo.pair[2].y)
  /\ \A i \in 1..Len(pathCache) :
       pathCache[i].key # GetCacheKey(memo.pair[1], memo.pair[2])

\* the network is the one buildFromGrid() makes of the present grid
Built == network # NoNetwork /\ network = BuildFromGrid(grid) /\ DOMAIN network.nodes # {}

\* the cost buildFromGrid() gives the edge e when the cell c has density d
CostWith(c, d, e) == BuildFromGrid(RestoreTrafficDensity(grid, c, d)).edges[e].cost

(* C12: in the graph buildFromGrid produces, for every road cell c and
   every edge leaving c (edge.from = c), the cost with c.trafficDensity =
   100 at build time is strictly greater than with c.trafficDensity = 0,
   and the cost never decreases as c.trafficDensity grows. *)
C12_CongestionRaisesCost ==
  Built =>
    \A e \in DOMAIN network.edges :
      /\ network.edges[e].from = e[1]
      /\ CostWith(e[1], 100, e) > CostWith(e[1], 0, e)
      /\ \A d1, d2 \in DensityInputs :
           d1 <= d2 => CostWith(e[1], d1, e) <= CostWith(e[1], d2, e)

\* the road clusters of the grid: the sets of road cells joined by adjacency
Clusters(g) == {RoadReach(g, {c}) : c \in {c \in DOMAIN g : IsRoad(g[c])}}

(* C13: after buildFromGrid on a grid with several disjoint road clusters
   getConnectedNodes() returns exactly the nodes of one connected
   component of maximum size (closed under the neighbour relation, with no
   node of another cluster); with a single cluster it returns all nodes. *)
C13_LargestComponent ==
  Built =>
    LET connected == GetConnectedNodes(network) IN
    /\ connected \in Clusters(grid)
    /\ \A k \in Clusters(grid) : Cardinality(k) <= Cardinality(connected)
    /\ \A id \in connected :
         \A i \in 1..Len(GetNeighbors(network, id)) :
           GetNeighbors(network, id)[i] \in connected
    /\ Cardinality(Clusters(grid)) = 1 => connected = DOMAIN network.nodes

\* the grid has clusters of different sizes and the cluster of the first
\* node is not the one returned
C13_Witness ==
  /\ Built
  /\ Cardinality(Clusters(grid)) > 1
  /\ \E k \in Clusters(grid) : Cardinality(k) < Cardinality(GetConnectedNodes(network))
  /\ network.nodeOrder[1] \notin GetConnectedNodes(network)

\* the road cells of g, and whether two cells are 4-adjacent
RoadCellSet(g) == {c \in DOMAIN g : IsRoad(g[c])}
Adjacent(a, b) == (a[1] - b[1]) * (a[1] - b[1]) + (a[2] - b[2]) * (a[2] - b[2]) = 1

\* the node a lists the node b in its connections
Lists(net, a, b) ==
  \E i \in 1..Len(net.nodes[a].connections) : net.nodes[a].connections[i] = b

(* C17: after any sequence of Grid.placeRoad and Grid.clearCell calls
   followed by buildFromGrid() the node set is exactly the set of the
   present road cells (nothing survives from an earlier build) and, for
   every pair of 4-adjacent road cells, the directed edges exist in both
   directions and each cell lists the other in its connections. *)
C17_BuildMatchesGrid ==
  Built =>
    /\ DOMAIN network.nodes = RoadCellSet(grid)
    /\ \A a, b \in RoadCellSet(grid) :
         Adjacent(a, b) =>
           /\ <<a, b>> \in DOMAIN network.edges
           /\ <<b, a>> \in DOMAIN network.edges
           /\ Lists(network, a, b)
           /\ Lists(network, b, a)

\* a rebuild after clearCell dropped the node of the cleared cell, and the
\* road cells that remain have edges
C17_Witness ==
  /\ Built
  /\ calls.dropped
  /\ \E a, b \in RoadCellSet(grid) : Adjacent(a, b)
  /\ \E c \in EditCells : ~IsRoad(grid[c])

(* C18: in every graph buildFromGrid produces, each edge joins two nodes
   whose cells were road cells at build time and are 4-adjacent, each edge
   from -> to has a matching edge to -> from with the same cost, lanes and
   speed limit, and no edge exists in only one direction. *)
C18_EdgesSymmetric ==
  Built =>
    \A e \in DOMAIN network.edges :
      LET edge == network.edges[e] IN
      /\ edge.from = e[1] /\ edge.to = e[2]
      /\ edge.from \in DOMAIN network.nodes /\ edge.to \in DOMAIN network.nodes
      /\ IsRoad(grid[edge.from]) /\ IsRoad(grid[edge.to])
      /\ Adjacent(edge.from, edge.to)
      /\ <<edge.to, edge.from>> \in DOMAIN network.edges
      /\ network.edges[<<edge.to, edge.from>>].cost = edge.cost
      /\ network.edges[<<edge.to, edge.from>>].lanes = edge.lanes
      /\ network.edges[<<edge.to, edge.from>>].speedLimit = edge.speedLimit

\* an edge between a small road and a highway, built while one of the two
\* cells carried traffic
C18_Witness ==
  /\ Built
  /\ \E e \in DOMAIN network.edges :
       /\ grid[e[1]].roadType # grid[e[2]].roadType
       /\ grid[e[1]].trafficDensity # grid[e[2]].trafficDensity

(* ------------------------------------------------------------------ *)
(* SpecVehicle: a Vehicle driven directly through its public members    *)
(* ------------------------------------------------------------------ *)
\* the speeds a caller gives the vehicle: 0, 0.25, 0.5, 1 and 2 cells per tick
VhSpeedInputs == {0, VScale \div 4, VScale \div 2, VScale, 2 * VScale}

VhInit ==
  /\ EngIdle /\ QueueIdle
  /\ \E type \in {"car", "truck"} :
       vh = NewVehicle(<<"v", 0>>, type, PointA, PointB)
  /\ vhLog = [updates |-> 0, speed |-> 0, speedChanged |-> FALSE]
  /\ CmIdle /\ CityIdle /\ MgrIdle /\ GpfIdle /\ TsIdle

\* vehicle.setPath(path): a straight path from the vehicle's start
VhSetPath ==
  /\ vh.path = NullPath
  /\ \E path \in PathInputs : vh' = SetPath(vh, path)
  /\ vhLog' = [updates |-> 0, speed |-> vh.speed, speedChanged |-> FALSE]
  /\ UNCHANGED VhOthers

\* vehicle.speed = s, as the spawners of TrafficSimulator assign it
VhSetSpeed ==
  /\ vhLog.updates = 0
  /\ \E s \in VhSpeedInputs : /\ vh' = [vh EXCEPT !.speed = s]
                               /\ vhLog' = [vhLog EXCEPT !.speed = s]
  /\ UNCHANGED VhOthers

\* vehicle.accelerate(0.05) / vehicle.decelerate(0.05)
VhAccelerate ==
  /\ vh' = Accelerate(vh, VScale \div 20)
  /\ vhLog' = [vhLog EXCEPT !.speedChanged = @ \/ vh'.speed # vh.speed]
  /\ UNCHANGED VhOthers
VhDecelerate ==
  /\ vh' = Decelerate(vh, VScale \div 20)
  /\ vhLog' = [vhLog EXCEPT !.speedChanged = @ \/ vh'.speed # vh.speed]
  /\ UNCHANGED VhOthers

\* vehicle.update(cellSize)
VhUpdate ==
  /\ vhLog.updates < MaxUpdates
  /\ vh' = VehicleUpdate(vh)
  /\ vhLog' = [vhLog EXCEPT !.updates = @ + 1]
  /\ UNCHANGED VhOthers

VhNext == VhSetPath \/ VhSetSpeed \/ VhAccelerate \/ VhDecelerate \/ VhUpdate

SpecVehicle == VhInit /\ [][VhNext]_vars

\* the vehicle was given a path that exists and has moved at the one speed
\* vhLog.speed > 0 since
VhConstantSpeedRun ==
  /\ vh.path # NullPath
  /\ vh.path.exists
  /\ ~vhLog.speedChanged
  /\ vhLog.speed > 0

(* C15: a vehicle given a path of length L that travels at speed S reaches
   ARRIVED (and is then no longer in the active set of TrafficSimulator)
   after at most ceil(L / S) + 1 calls of update(); L is taken as the
   number of nodes of the path, the larger of its two readings. *)
C15_ArrivesWithinBound ==
  (VhConstantSpeedRun
     /\ vhLog.updates >= CeilDiv(Len(vh.path.nodes) * VScale, vhLog.speed) + 1)
    => VehicleHasArrived(vh)

(* ------------------------------------------------------------------ *)
(* SpecTraffic: a TrafficSimulator over a grid that is edited, loaded   *)
(* from a save and built into the road network                          *)
(* ------------------------------------------------------------------ *)
\* the positions createCommuteVehicle is called with
CommutePositions == {PointA, PointB, PointC}

\* the random choices of a spawn: the vehicle type and the speed ratio in percent
VehicleTypes == {"car", "bus", "truck"}
SpeedRatios == {50, 60}

TsLog0 == [request |-> NoRequest, returned |-> <<>>, attempts |-> 0]

TsInit ==
  /\ EngIdle /\ QueueIdle
  /\ \E version \in {"commute", "random"} : ts = NewTrafficSimulator(version)
  /\ tsLog = TsLog0
  /\ grid \in {NewGrid, RowLayout, ULayout, SplitLayout}
  /\ network = EmptyNetwork
  /\ GpfIdle /\ CmIdle /\ MgrIdle /\ VhIdle

\* TrafficSimulator.createCommuteVehicle(start, end)
TsCreateCommuteVehicle ==
  /\ ts # NoSimulator /\ ts.version = "commute"
  /\ \E start \in CommutePositions, end \in CommutePositions :
       LET tried == CreateCommuteVehicle(ts, network, start, end, 50) IN
       \* Math.random() is drawn only once the path exists
       IF tried.id = <<>>
         THEN /\ ts' = tried.sim
              /\ tsLog' = [request |-> tried.request, returned |-> <<>>, attempts |-> 1]
         ELSE \E ratio \in SpeedRatios :
                LET made == CreateCommuteVehicle(ts, network, start, end, ratio) IN
                /\ ts' = made.sim
                /\ tsLog' = [request |-> made.request, returned |-> made.id,
                             attempts |-> 1]
  /\ UNCHANGED <<cityVars, TsOthers>>

\* TrafficSimulator.update() of the version with createCommuteVehicle
TsUpdate ==
  /\ ts # NoSimulator /\ ts.version = "commute"
  /\ ts' = UpdateAndRemove(ts, grid)
  /\ grid' = UpdateTrafficDensity(grid, ts'.vehicles)
  /\ UNCHANGED <<network, tsLog, TsOthers>>

\* TrafficSimulator.update() of the version that spawns at random:
\* Math.random() < spawnRate decides whether a spawn is tried
UpdateSpawning(net) ==
  /\ \E spawn \in BOOLEAN :
       /\ spawn => ts.spawnRate > 0 /\ Cardinality(DOMAIN ts.vehicles) < ts.maxVehicles
       /\ ~spawn => ts.spawnRate < 100
       /\ IF spawn /\ Len(GetAllNodes(net)) >= 2
            THEN \E startId \in Range(GetAllNodes(net)),
                    endId \in Range(GetAllNodes(net)) :
                   LET tried == SpawnRandomVehicle(ts, net, startId, endId, "car", 50) IN
                   \* the type and the speed are drawn only once the path exists
                   IF tried.id = <<>>
                     THEN /\ ts' = UpdateAndRemove(tried.sim, grid)
                          /\ tsLog' = [request |-> tried.request, returned |-> <<>>,
                                       attempts |-> 1]
                     ELSE \E type \in VehicleTypes, ratio \in SpeedRatios :
                            LET made == SpawnRandomVehicle(ts, net, startId, endId,
                                                           type, ratio) IN
                            /\ ts' = UpdateAndRemove(made.sim, grid)
                            /\ tsLog' = [request |-> made.request, returned |-> made.id,
                                         attempts |-> 1]
            ELSE /\ ts' = UpdateAndRemove(ts, grid)
                 /\ tsLog' = IF spawn THEN [request |-> NoRequest, returned |-> <<>>,
                                            attempts |-> 1]
                             ELSE [tsLog EXCEPT !.attempts = 0]
  /\ grid' = UpdateTrafficDensity(grid, ts'.vehicles)

\* TrafficSimulator.update() of the version that spawns at random
TsUpdateSpawning ==
  /\ ts # NoSimulator /\ ts.version = "random"
  /\ UpdateSpawning(network)
  /\ UNCHANGED <<network, TsOthers>>

\* TrafficSimulator.getAndClearArrivedVehicles()
TsGetAndClearArrivedVehicles ==
  /\ ts # NoSimulator /\ ts.version = "commute"
  /\ ts' = GetAndClearArrivedVehicles(ts)
  /\ UNCHANGED <<cityVars, tsLog, TsOthers>>

\* TrafficSimulator.clearVehicles()
TsClearVehicles ==
  /\ ts # NoSimulator
  /\ ts' = ClearVehicles(ts)
  /\ UNCHANGED <<cityVars, tsLog, TsOthers>>

TsNext ==
  \/ TsCreateCommuteVehicle \/ TsUpdate \/ TsUpdateSpawning
  \/ TsGetAndClearArrivedVehicles \/ TsClearVehicles

SpecTraffic ==
  TsInit /\ [][TsNext \/ PathPlaceRoad \/ PathClearCell \/ PathBuildFromGrid
                  \/ PathLoadSave]_vars

(* C14: with a graph built from two disjoint road clusters no spawn attempt
   of TrafficSimulator (the random spawn of update(), createCommuteVehicle)
   issues a path request whose start or end node lies outside the largest
   connected component: both are taken from getConnectedNodes(). *)
C14_SpawnInLargestComponent ==
  (ts # NoSimulator /\ tsLog.request # NoRequest) =>
    /\ tsLog.request.from \in tsLog.request.connected
    /\ tsLog.request.to \in tsLog.request.connected

\* no spawn attempt ever makes a vehicle: findPathBetweenNodes finds no path
\* between two different nodes, and both spawners give up on equal nodes
TsNeverHasVehicle ==
  ts # NoSimulator =>
    /\ DOMAIN ts.vehicles = {}
    /\ ts.totalVehiclesSpawned = 0
    /\ ts.totalVehiclesArrived = 0
    /\ ts.arrivedVehicles = <<>>
    /\ tsLog.returned = <<>>

(* ------------------------------------------------------------------ *)
(* SpecCity: the CommuteManager and the TrafficSimulator of one city,   *)
(* both over the one grid, which may be loaded from a save              *)
(* ------------------------------------------------------------------ *)
CityInit ==
  /\ EngIdle /\ QueueIdle
  /\ grid = MgrLayout
  /\ network = BuildFromGrid(MgrLayout)
  /\ citizens \in [CitizenIds -> CitizenInputs]
  /\ commuters = <<>>
  /\ roadCongestion = <<>>
  /\ simulationInterval = 2
  /\ maxCommuteTime = MaxBudget
  /\ ticksSinceSimulation = 0
  /\ isSimulating = FALSE
  /\ cycle = Cycle0
  /\ \E version \in {"commute", "random"} : ts = NewTrafficSimulator(version)
  /\ tsLog = TsLog0
  /\ CmIdle /\ GpfIdle /\ VhIdle

\* CommuteManager.update(), TrafficSimulator.update(), SaveManager.load()
CityNext ==
  \/ MgrUpdateSimulating \/ MgrUpdateStart \/ MgrUpdateIdle
  \/ TsUpdate \/ TsUpdateSpawning \/ PathLoadSave

SpecCity == CityInit /\ [][CityNext]_vars

(* C20: the trafficDensity field of the cells has a single writer: within a
   tick it is written only by the density recomputation of TrafficSimulator,
   and no other simulation component, in particular the commute simulator,
   resets or overwrites it.  Here: no step of the CommuteManager changes
   the trafficDensity of a cell. *)
C20_SingleWriter ==
  [][mgrVars' # mgrVars =>
       \A c \in DOMAIN grid : grid'[c].trafficDensity = grid[c].trafficDensity]_vars

(* ------------------------------------------------------------------ *)
(* SpecSearch: single searches.  A grid with any set of road cells, the *)
(* RoadNetwork built from it and a pair of cells are given; findPath of *)
(* a newly constructed GridPathFinding (as in the tests of              *)
(* src/unnamed/part_007) or PathFinding.findPath is called for the pair *)
(* ------------------------------------------------------------------ *)
\* the grid after placeRoad on each cell of S, in getAllCells order
RoadsOn(S) ==
  LET chosen(c) == c \in S IN PlaceRoads(NewGrid, SelectSeq(GetAllCells, chosen))

SearchLayouts == {RoadsOn(S) : S \in SUBSET DOMAIN NewGrid}

SearchInit ==
  /\ EngIdle /\ QueueIdle
  /\ grid \in SearchLayouts
  /\ network = BuildFromGrid(grid)
  /\ pathCache = <<>>
  /\ pq \in {[kind |-> "request", start |-> IdToPosition(a), end |-> IdToPosition(b)] :
               a, b \in DOMAIN NewGrid}
  /\ memo = [pair |-> NoCall, last |-> NoCall]
  /\ calls = [edits |-> 0, queries |-> 0, stale |-> FALSE, dropped |-> FALSE]
  /\ CmIdle
  /\ MgrIdle
  /\ VhIdle
  /\ TsIdle

\* new GridPathFinding(grid).findPath(start, end)
SearchGridFindPath ==
  /\ pq.kind = "request"
  /\ LET found == GridFindPath(grid, pathCache, pq.start, pq.end) IN
       /\ pathCache' = found.cache
       /\ pq' = [kind |-> "gridSearch", start |-> pq.start, end |-> pq.end,
                 grid |-> grid, network |-> network, result |-> found.path,
                 iterations |-> GridAStarRun(grid, pq.start, pq.end).iterations]
  /\ UNCHANGED <<cityVars, memo, calls, PathOthers>>

\* PathFinding.findPath(start, end) on the network built from the grid
SearchGraphFindPath ==
  /\ pq.kind = "request"
  /\ pq' = [kind |-> "graphSearch", start |-> pq.start, end |-> pq.end,
            grid |-> grid, network |-> network,
            result |-> FindPath(network, pq.start, pq.end),
            iterations |->
              AStarRun(network, PositionToId(pq.start), PositionToId(pq.end)).iterations]
  /\ UNCHANGED <<cityVars, pathCache, memo, calls, PathOthers>>

SearchNext == SearchGridFindPath \/ SearchGraphFindPath

SpecSearch == SearchInit /\ [][SearchNext]_vars

\* the last search was made by GridPathFinding / by PathFinding
GridSearch == pq.kind = "gridSearch"
GraphSearch == pq.kind = "graphSearch"

\* the node sequence leads from start to end over 4-adjacent cells of the grid
LeadsOverGrid(nodes, start, end) ==
  /\ Len(nodes) >= 1
  /\ nodes[1] = PositionToId(start)
  /\ nodes[Len(nodes)] = PositionToId(end)
  /\ \A i \in 1..Len(nodes) : nodes[i] \in DOMAIN NewGrid
  /\ \A i \in 1..(Len(nodes) - 1) :
       (nodes[i + 1][1] - nodes[i][1]) * (nodes[i + 1][1] - nodes[i][1])
       + (nodes[i + 1][2] - nodes[i][2]) * (nodes[i + 1][2] - nodes[i][2]) = 1

(* C21: for any two positions inside the grid, whatever the mix of road and
   non-road cells, GridPathFinding.findPath returns exists = true with a
   node sequence that starts at the start cell, ends at the end cell and
   moves between 4-adjacent in-grid cells; when start equals end the path
   is the single start cell with totalCost 0. *)
C21_AlwaysFound ==
  GridSearch =>
    /\ pq.result.exists
    /\ LeadsOverGrid(pq.result.nodes, pq.start, pq.end)
    /\ pq.start = pq.end =>
         (pq.result.nodes = <<PositionToId(pq.start)>> /\ pq.result.totalCost = 0)

\* the cost of a step between adjacent cells: 1 road to road, 3 between a
\* road and a non-road cell, 5 non-road to non-road
StepCost(g, a, b) ==
  IF IsRoad(g[a]) /\ IsRoad(g[b]) THEN 1
  ELSE IF IsRoad(g[a]) \/ IsRoad(g[b]) THEN 3
  ELSE 5

\* the sum of the step costs of a node sequence, from step i on
RECURSIVE SumStepCosts(_, _, _)
SumStepCosts(g, nodes, i) ==
  IF i > Len(nodes) - 1 THEN 0
  ELSE StepCost(g, nodes[i], nodes[i + 1]) + SumStepCosts(g, nodes, i + 1)

\* the least sum of step costs over the 4-connected paths from the cell
\* start to each cell, from the bounds d by relaxation
RECURSIVE Cheapest(_, _)
Cheapest(g, d) ==
  LET least(S) == CHOOSE v \in S : \A w \in S : v <= w
      step == [c \in DOMAIN g |->
                 least({d[c]} \cup
                       {d[n] + StepCost(g, n, c) :
                          n \in {n \in DOMAIN g :
                                   (n[1] - c[1]) * (n[1] - c[1])
                                   + (n[2] - c[2]) * (n[2] - c[2]) = 1}})]
  IN IF step = d THEN d ELSE Cheapest(g, step)

CheapestCost(g, start, end) ==
  Cheapest(g, [c \in DOMAIN g |-> IF c = PositionToId(start) THEN 0 ELSE Infinity])
    [PositionToId(end)]

(* C22: the totalCost of the path GridPathFinding.findPath returns equals
   the sum of its step costs (1 road to road, 3 between a road and a
   non-road cell, 5 non-road to non-road) and is the minimum of that sum
   over all 4-connected paths from start to end. *)
C22_CheapestRoute ==
  (GridSearch /\ pq.result.exists) =>
    /\ pq.result.totalCost = SumStepCosts(pq.grid, pq.result.nodes, 1)
    /\ pq.result.totalCost = CheapestCost(pq.grid, pq.start, pq.end)

\* an all-road route was returned that has more steps than the shortest
\* routes between its ends, which leave the roads and cost 3 a step or more
C22_Witness ==
  /\ GridSearch
  /\ IsRoadRoute(pq.grid, pq.result)
  /\ Len(pq.result.nodes) - 1 > GridHeuristic(pq.start, pq.end)
  /\ ~RoadConnected(RoadsOn({PositionToId(pq.start), PositionToId(pq.end)}
                            \cup {c \in DOMAIN pq.grid :
                                    /\ IsRoad(pq.grid[c])
                                    /\ GridHeuristic(pq.start, IdToPosition(c))
                                       + GridHeuristic(IdToPosition(c), pq.end)
                                       = GridHeuristic(pq.start, pq.end)}),
                    pq.start, pq.end)
  /\ pq.result.totalCost < 3 * GridHeuristic(pq.start, pq.end)

\* startCommuteSimulation() has just run: no tick of the cycle was made yet
CycleJustStarted == cycle # NoManager /\ cycle.started /\ cycle.ticks = 0 /\ isSimulating

(* C24: at cycle start one commuter is created for each citizen that is
   EMPLOYED and has both a home and a work position, and for no other
   citizen; a commuter whose path request returns exists = false is FAILED
   at once, with commuteTime 0 and no path, and is among the failed
   commuters of the cycle. *)
C24_CommutersAtStart ==
  CycleJustStarted =>
    /\ DOMAIN commuters =
         {id \in CitizenIds : /\ citizens[id].employmentStatus = "EMPLOYED"
                              /\ citizens[id].homeLocation # NullLocation
                              /\ citizens[id].workLocation # NullLocation}
    /\ \A id \in DOMAIN commuters :
         ~FindPath(network, citizens[id].homeLocation, citizens[id].workLocation).exists =>
           /\ commuters[id].state = "FAILED"
           /\ commuters[id].commuteTime = 0
           /\ commuters[id].path = NullPath
           /\ id \in FailedCitizens(commuters)

\* a cycle has just started with a commuter that failed for want of a path,
\* a commuter under way and a citizen for whom no commuter was created
C24_Witness ==
  /\ CycleJustStarted
  /\ \E id \in DOMAIN commuters :
       /\ ~FindPath(network, citizens[id].homeLocation, citizens[id].workLocation).exists
       /\ commuters[id].state = "FAILED"
  /\ \E id \in CitizenIds : id \notin DOMAIN commuters

(* C25: every call of PathFinding.findPath and GridPathFinding.findPath
   ends with its A* loop having counted at most one iteration more than
   the iteration cap, the one that leaves the loop, and a call whose loop
   exceeded the cap returns the non-existent Path (exists = false, no
   nodes, infinite cost), never a partial path. *)
C25_CappedSearch ==
  (GridSearch \/ GraphSearch) =>
    /\ pq.iterations <= MaxIterations + 1
    /\ pq.iterations > MaxIterations =>
         /\ ~pq.result.exists
         /\ pq.result.nodes = <<>>
         /\ pq.result.totalCost = Infinity

\* a search between two cells of the grid was cut off by the cap after it
\* had found routes to other cells, and returned the non-existent Path
C25_Witness ==
  /\ GridSearch
  /\ pq.iterations = MaxIterations + 1
  /\ pq.start # pq.end
  /\ pq.result = NoPath

\* the sum of the costs of the edges along a node sequence, from step i on
RECURSIVE SumEdgeCosts(_, _, _)
SumEdgeCosts(net, nodes, i) ==
  IF i > Len(nodes) - 1 THEN 0
  ELSE net.edges[<<nodes[i], nodes[i + 1]>>].cost + SumEdgeCosts(net, nodes, i + 1)

\* path is an existing Path of net from startId to endId along edges, whose
\* totalCost is the sum of their costs
IsGraphRoute(net, path, startId, endId) ==
  /\ path.exists
  /\ Len(path.nodes) >= 2
  /\ path.nodes[1] = startId
  /\ path.nodes[Len(path.nodes)] = endId
  /\ \A i \in 1..(Len(path.nodes) - 1) :
       <<path.nodes[i], path.nodes[i + 1]>> \in DOMAIN net.edges
  /\ path.totalCost = SumEdgeCosts(net, path.nodes, 1)

(* C26: for any built graph and any two distinct nodes in the same
   connected component, PathFinding.findPath and findPathBetweenNodes
   return exists = true with a node sequence that starts at the start
   node, ends at the end node, joins consecutive nodes by existing edges,
   and has totalCost equal to the sum of those edges' costs. *)
C26_GraphRouteFound ==
  ( /\ GraphSearch
    /\ pq.start # pq.end
    /\ PositionToId(pq.start) \in DOMAIN pq.network.nodes
    /\ PositionToId(pq.end) \in Dfs(pq.network.nodes, {PositionToId(pq.start)}) )
  => /\ IsGraphRoute(pq.network, pq.result, PositionToId(pq.start), PositionToId(pq.end))
     /\ IsGraphRoute(pq.network,
                     FindPathBetweenNodes(pq.network, PositionToId(pq.start),
                                          PositionToId(pq.end)),
                     PositionToId(pq.start), PositionToId(pq.end))

(* ------------------------------------------------------------------ *)
(* SpecSpeed: a Vehicle as spawnRandomVehicle makes it (path set,       *)
(* speed = maxSpeed * initialSpeedRatio), then driven as the vehicle    *)
(* loop of TrafficSimulator.update drives one: update() and             *)
(* updateVehicleSpeed, on whatever cell and traffic it meets            *)
(* ------------------------------------------------------------------ *)
\* the traffic densities of the cell under the vehicle: light, moderate, heavy
ControlDensities == {0, 60, 100}

\* the grid the vehicle is on: no road under it, or the road along row 0
\* with density d on the vehicle's cell
ControlGrid(v, onRoad, d) ==
  IF onRoad THEN RestoreTrafficDensity(RowLayout, GetCellPosition(v), d) ELSE NewGrid

\* another moving vehicle one cell further along the row
VehicleAhead ==
  SetPath(NewVehicle(<<"v", 1>>, "car", Pos(1, 0), PointB), StraightPath(GridWidth))

SpeedInit ==
  /\ EngIdle /\ QueueIdle
  /\ \E type \in VehicleTypes, path \in {StraightPath(1), StraightPath(GridWidth)},
        ratio \in SpeedRatios :
       vh = [SetPath(NewVehicle(<<"v", 0>>, type, PointA, PointB), path)
               EXCEPT !.speed = (MaxSpeedOf(type) * ratio) \div 100]
  /\ vhLog = [updates |-> 0, speed |-> vh.speed, speedChanged |-> FALSE]
  /\ CmIdle /\ CityIdle /\ MgrIdle /\ GpfIdle /\ TsIdle

\* vehicle.update(cellSize): the first one turns the vehicle to the next node
\* of its path, or finds it arrived
SpeedUpdate ==
  /\ vhLog.updates = 0
  /\ vh' = VehicleUpdate(vh)
  /\ vhLog' = [vhLog EXCEPT !.updates = @ + 1]
  /\ UNCHANGED VhOthers

\* updateVehicleSpeed(vehicle)
SpeedControl ==
  /\ \E onRoad \in BOOLEAN, d \in ControlDensities, ahead \in BOOLEAN :
       vh' = UpdateVehicleSpeed(
               IF ahead THEN (vh.id :> vh) @@ (VehicleAhead.id :> VehicleAhead)
               ELSE (vh.id :> vh),
               ControlGrid(vh, onRoad, d), vh.id)
  /\ vh' # vh
  /\ vhLog' = [vhLog EXCEPT !.speedChanged = TRUE]
  /\ UNCHANGED VhOthers

SpeedNext == SpeedUpdate \/ SpeedControl

SpecSpeed == SpeedInit /\ [][SpeedNext]_vars

(* C27: after every tick and after any sequence of the accelerate and
   decelerate adjustments of the speed controller (off the road, vehicle
   ahead, density above 80, above 50, or below), the speed of a vehicle is
   at least 0 and at most the maxSpeed of its type: 2.0 for a car, 1.5 for
   a bus, 1.2 for a truck. *)
C27_SpeedInRange ==
  vh # NoVehicleObject =>
    /\ 0 <= vh.speed
    /\ vh.speed <= vh.maxSpeed
    /\ vh.type = "car" => 10 * vh.speed <= 20 * VScale
    /\ vh.type = "bus" => 10 * vh.speed <= 15 * VScale
    /\ vh.type = "truck" => 10 * vh.speed <= 12 * VScale

\* a truck spawned at 60% of its maxSpeed was slowed down by the controller
\* until decelerate(0.1) met the floor of 0
C27_Witness ==
  /\ vh # NoVehicleObject
  /\ vh.type = "truck"
  /\ vhLog.speed = (6 * vh.maxSpeed) \div 10
  /\ vh.state = "moving"
  /\ vh.speed = 0

(* ------------------------------------------------------------------ *)
(* SpecDensity: TrafficSimulator.updateTrafficDensity() applied to a    *)
(* grid and a set of vehicles that are given: a crowd of vehicles on    *)
(* one cell, possibly one more vehicle on another cell, and densities   *)
(* a save may have left on the cells                                    *)
(* ------------------------------------------------------------------ *)
\* the largest crowd on one cell; 5 vehicles reach the full density
MaxCrowd == 6

\* the number of cells whose density the save overwrites
MaxLoads == 1

\* a vehicle standing on cell c
VehicleOn(id, c) == NewVehicle(id, "car", IdToPosition(c), IdToPosition(c))

\* k vehicles on cell c and j on cell d
Crowd(c, k, d, j) ==
  [id \in {<<"v", n>> : n \in 0..(k + j - 1)} |->
     IF id[2] < k THEN VehicleOn(id, c) ELSE VehicleOn(id, d)]

DensityInit ==
  /\ EngIdle /\ QueueIdle
  /\ grid \in {RowLayout, ULayout, SplitLayout, MgrLayout}
  /\ \E c \in DOMAIN NewGrid, d \in DOMAIN NewGrid, k \in 0..MaxCrowd, j \in {0, 1} :
       ts = [NewTrafficSimulator("commute") EXCEPT !.vehicles = Crowd(c, k, d, j)]
  /\ tsLog = [updates |-> 0, loads |-> 0, before |-> grid, counted |-> grid]
  /\ network = EmptyNetwork
  /\ GpfIdle /\ CmIdle /\ MgrIdle /\ VhIdle

\* SaveManager.load before the simulator runs
DensityLoad ==
  /\ tsLog.updates = 0 /\ tsLog.loads < MaxLoads
  /\ \E c \in DOMAIN grid, d \in DensityInputs :
       /\ d # grid[c].trafficDensity
       /\ grid' = RestoreTrafficDensity(grid, c, d)
  /\ tsLog' = [tsLog EXCEPT !.loads = @ + 1]
  /\ UNCHANGED <<network, ts, TsOthers>>

\* updateTrafficDensity(), the last step of TrafficSimulator.update()
DensityUpdate ==
  /\ tsLog.updates = 0
  /\ grid' = UpdateTrafficDensity(grid, ts.vehicles)
  /\ tsLog' = [tsLog EXCEPT !.updates = 1, !.before = grid,
                             !.counted = CountedTrafficDensity(grid, ts.vehicles)]
  /\ UNCHANGED <<network, ts, TsOthers>>

DensityNext == DensityLoad \/ DensityUpdate

SpecDensity == DensityInit /\ [][DensityNext]_vars

\* the number of vehicles whose cell is c
VehiclesOn(c) ==
  Cardinality({id \in DOMAIN ts.vehicles :
                 /\ ts.vehicles[id].position.x \div VScale = c[1]
                 /\ ts.vehicles[id].position.y \div VScale = c[2]})

\* the road cells among the 8 cells around c
RoadCellsAround(g, c) ==
  {n \in DOMAIN g : /\ n # c
                    /\ n[1] \in (c[1] - 1)..(c[1] + 1)
                    /\ n[2] \in (c[2] - 1)..(c[2] + 1)
                    /\ g[n].type = "road"}

\* the sum of the densities g has on the cells of S
RECURSIVE DensitySum(_, _)
DensitySum(g, S) ==
  IF S = {} THEN 0
  ELSE LET n == CHOOSE n \in S : TRUE
       IN g[n].trafficDensity + DensitySum(g, S \ {n})

(* C28: after updateTrafficDensity() every cell's trafficDensity lies in
   [0, 100]: before smoothing a road cell with k vehicles holds
   min(100, 20 * k), 0 when it has none; smoothing gives a road cell with
   road cells around it the mean of its own pre-smoothing value and theirs,
   a mean that lies in [0, 100] before any rounding, and leaves every other
   cell as it was. *)
C28_DensityInRange ==
  (ts # NoSimulator /\ tsLog.updates > 0) =>
    \A c \in DOMAIN grid :
      LET around == RoadCellsAround(grid, c)
          total == tsLog.counted[c].trafficDensity + DensitySum(tsLog.counted, around)
      IN /\ grid[c].trafficDensity >= 0 /\ grid[c].trafficDensity <= 100
         /\ grid[c].type = "road" =>
              /\ VehiclesOn(c) = 0 => tsLog.counted[c].trafficDensity = 0
              /\ VehiclesOn(c) \in 1..4 =>
                   tsLog.counted[c].trafficDensity = 20 * VehiclesOn(c)
              /\ VehiclesOn(c) >= 5 => tsLog.counted[c].trafficDensity = 100
              /\ around # {} =>
                   /\ total >= 0 /\ total <= 100 * (Cardinality(around) + 1)
                   /\ grid[c].trafficDensity = total \div (Cardinality(around) + 1)
              /\ around = {} => grid[c].trafficDensity = tsLog.counted[c].trafficDensity
         /\ grid[c].type # "road" =>
              /\ grid[c].trafficDensity = tsLog.before[c].trafficDensity
              /\ tsLog.counted[c].trafficDensity = tsLog.before[c].trafficDensity

\* a road cell with more than 5 vehicles was counted as 100 and smoothed to
\* less, and the road cell next to it, which a save had left at 100 and which
\* has no vehicle, was counted as 0 and smoothed to more
C28_Witness ==
  /\ ts # NoSimulator /\ tsLog.updates > 0
  /\ \E c \in DOMAIN grid, n \in DOMAIN grid :
       /\ grid[c].type = "road" /\ n \in RoadCellsAround(grid, c)
       /\ VehiclesOn(c) > 5 /\ VehiclesOn(n) = 0
       /\ tsLog.before[n].trafficDensity = 100
       /\ tsLog.counted[c].trafficDensity = 100 /\ tsLog.counted[n].trafficDensity = 0
       /\ grid[c].trafficDensity > 0 /\ grid[c].trafficDensity < 100
       /\ grid[n].trafficDensity > 0 /\ grid[n].trafficDensity < 100

(* ------------------------------------------------------------------ *)
(* SpecCache: the pathCache of one GridPathFinding over a sequence of   *)
(* findPath and clearCache calls, with an observer that notes for every *)
(* entry the call that stored it and the hits it has had since          *)
(* ------------------------------------------------------------------ *)
\* the keys of the entries of a cache
Keys(cache) == {cache[i].key : i \in 1..Len(cache)}

CacheInit ==
  /\ EngIdle /\ QueueIdle
  /\ grid \in {RowLayout, ULayout}
  /\ network = NoNetwork
  /\ pathCache = <<>>
  /\ pq = [kind |-> "none"]
  /\ memo = [pair |-> NoCall, last |-> NoCall]
  /\ calls = [queries |-> 0, entries |-> {}]
  /\ CmIdle /\ MgrIdle /\ VhIdle /\ TsIdle

\* GridPathFinding.findPath(start, end)
CacheFindPath ==
  /\ calls.queries < MaxQueries
  /\ \E p \in GridPairs :
       LET found == GridFindPath(grid, pathCache, p[1], p[2])
           key == GetCacheKey(p[1], p[2])
           kept == {e \in calls.entries : e.key \in Keys(found.cache)}
       IN /\ pathCache' = found.cache
          /\ pq' = [kind |-> "cache", start |-> p[1], end |-> p[2], grid |-> grid,
                    result |-> found.path, before |-> pathCache,
                    entries |-> calls.entries]
          /\ calls' =
               [queries |-> calls.queries + 1,
                entries |->
                  IF IsOffGrid(grid, p[1], p[2]) THEN calls.entries
                  ELSE IF key \in Keys(pathCache)
                    THEN {IF e.key = key THEN [e EXCEPT !.hits = @ + 1] ELSE e : e \in kept}
                    ELSE {e \in kept : e.key # key}
                         \cup {[key |-> key, born |-> calls.queries + 1, hits |-> 0]}]
  /\ UNCHANGED <<cityVars, memo, PathOthers>>

\* GridPathFinding.clearCache()
CacheClearCache ==
  /\ pathCache # <<>>
  /\ pathCache' = ClearCache(pathCache)
  /\ pq' = [kind |-> "none"]
  /\ calls' = [calls EXCEPT !.entries = {}]
  /\ UNCHANGED <<cityVars, memo, PathOthers>>

CacheNext == CacheFindPath \/ CacheClearCache

SpecCache == CacheInit /\ [][CacheNext]_vars

\* the last call was a findPath for two cells of the grid
CacheCall == pq.kind = "cache" /\ ~IsOffGrid(pq.grid, pq.start, pq.end)
CacheHit == CacheCall /\ GetCacheKey(pq.start, pq.end) \in Keys(pq.before)
CacheMissWhenFull ==
  /\ CacheCall
  /\ GetCacheKey(pq.start, pq.end) \notin Keys(pq.before)
  /\ Len(pq.before) >= MaxCacheSize

(* C29: a findPath that misses while the cache is full evicts exactly one
   entry, the one stored earliest among those present, whatever hits it
   has had, and stores the new one; a findPath that hits leaves the cache
   as it was, entries and order. *)
C29_FifoEviction ==
  /\ CacheMissWhenFull =>
       \E gone \in pq.entries :
         /\ \A e \in pq.entries : gone.born <= e.born
         /\ Keys(pathCache) =
              (Keys(pq.before) \ {gone.key}) \cup {GetCacheKey(pq.start, pq.end)}
         /\ gone.key \notin Keys(pathCache)
         /\ Len(pathCache) = Len(pq.before)
         /\ \A i \in 1..(Len(pathCache) - 1) : pathCache[i] = pq.before[i + 1]
  /\ CacheHit => pathCache = pq.before

\* the cache was full, the new pair missed, and the entry evicted was one
\* hit twice or more while the entry that stayed had never been hit
C29_Witness ==
  /\ CacheMissWhenFull
  /\ \E gone \in pq.entries, stays \in pq.entries :
       /\ gone.key \notin Keys(pathCache) /\ stays.key \in Keys(pathCache)
       /\ gone.born < stays.born
       /\ gone.hits >= 2 /\ stays.hits = 0

(* ------------------------------------------------------------------ *)
(* SpecRebuild: a RoadNetwork over a grid that is edited, rebuilt and   *)
(* asked needsRebuild(); the observer counts the edits since the last   *)
(* buildFromGrid() that changed whether a cell is a road                *)
(* ------------------------------------------------------------------ *)
\* the edits that change a cell between two buildFromGrid() calls
MaxChanges == 2

RebuildInit ==
  /\ EngIdle /\ QueueIdle
  /\ grid \in {NewGrid, RowLayout, ULayout, SplitLayout}
  /\ network = EmptyNetwork
  /\ pathCache = <<>>
  /\ pq = [kind |-> "none"]
  /\ memo = [pair |-> NoCall, last |-> NoCall]
  /\ calls = [built |-> FALSE, changes |-> 0, last |-> "none"]
  /\ CmIdle /\ MgrIdle /\ VhIdle /\ TsIdle

\* Grid.placeRoad(x, y, roadType)
RebuildPlaceRoad ==
  /\ \E c \in DOMAIN grid :
       /\ IsRoad(grid[c]) \/ calls.changes < MaxChanges
       /\ grid' = PlaceRoad(grid, c[1], c[2], "small")
       /\ calls' = IF IsRoad(grid[c]) THEN calls
                   ELSE [calls EXCEPT !.changes = @ + 1, !.last = "placeRoad"]
  /\ pq' = [kind |-> "none"]
  /\ UNCHANGED <<network, pathCache, memo, PathOthers>>

\* Grid.clearCell(x, y)
RebuildClearCell ==
  /\ \E c \in DOMAIN grid :
       /\ ~IsRoad(grid[c]) \/ calls.changes < MaxChanges
       /\ grid' = ClearCell(grid, c[1], c[2])
       /\ calls' = IF IsRoad(grid[c])
                     THEN [calls EXCEPT !.changes = @ + 1, !.last = "clearCell"]
                   ELSE calls
  /\ pq' = [kind |-> "none"]
  /\ UNCHANGED <<network, pathCache, memo, PathOthers>>

\* RoadNetwork.buildFromGrid()
RebuildBuildFromGrid ==
  /\ network' = BuildFromGrid(grid)
  /\ calls' = [built |-> TRUE, changes |-> 0, last |-> "none"]
  /\ pq' = [kind |-> "none"]
  /\ UNCHANGED <<grid, pathCache, memo, PathOthers>>

\* RoadNetwork.needsRebuild()
RebuildNeedsRebuild ==
  /\ pq' = [kind |-> "needsRebuild", result |-> NeedsRebuild(network, grid),
            grid |-> grid, network |-> network]
  /\ UNCHANGED <<cityVars, pathCache, memo, calls, PathOthers>>

RebuildNext ==
  \/ RebuildPlaceRoad \/ RebuildClearCell \/ RebuildBuildFromGrid \/ RebuildNeedsRebuild

SpecRebuild == RebuildInit /\ [][RebuildNext]_vars

RebuildAsked == pq.kind = "needsRebuild"

(* C30: needsRebuild() returns true exactly when the number of road cells
   of the grid differs from the number of nodes of the network; it returns
   false right after buildFromGrid(), true when since buildFromGrid() a
   single placeRoad on a cell that was no road or a single clearCell on a
   road cell was made, and it leaves grid and network as they were. *)
C30_NeedsRebuild ==
  RebuildAsked =>
    /\ pq.result = (Cardinality({c \in DOMAIN grid : grid[c].type = "road"})
                      # Len(network.nodeOrder))
    /\ (calls.built /\ calls.changes = 0) => pq.result = FALSE
    /\ (calls.built /\ calls.changes = 1) => pq.result = TRUE
    /\ grid = pq.grid /\ network = pq.network

\* needsRebuild() returned true after a build followed by one clearCell on a
\* road cell, which left the network with a node of a cell that is no road
C30_Witness ==
  /\ RebuildAsked /\ calls.built /\ calls.changes = 1 /\ calls.last = "clearCell"
  /\ pq.result = TRUE
  /\ \E id \in DOMAIN network.nodes : grid[id].type # "road"

(* ------------------------------------------------------------------ *)
(* SpecEngine: the GameEngine (src/src/core/GameEngine.ts) with its     *)
(* RoadNetwork and its TrafficSimulator, driven by ticks, by the road   *)
(* tools of the InputHandler and by the keys of main.ts.  gameTime, a   *)
(* counter nothing reads back, is left out.                             *)
(* ------------------------------------------------------------------ *)
\* networkRebuildInterval, 60 in the source, scaled down
NetworkRebuildInterval == 3

\* the ticks processed while nothing rebuilds the network
MaxIdleTicks == 5

\* the road edits of a run
MaxEngineEdits == 2

\* new GameEngine(config)
NewEngine == [networkDirty |-> TRUE, ticksSinceNetworkRebuild |-> 0]

\* GameEngine.markNetworkDirty()
MarkNetworkDirty(eng) == [eng EXCEPT !.networkDirty = TRUE]

\* GameEngine.rebuildNetwork(): the engine afterwards
RebuildNetwork(eng) == [eng EXCEPT !.networkDirty = FALSE, !.ticksSinceNetworkRebuild = 0]

\* GameEngine.tick: networkDirty && ticksSinceNetworkRebuild >= networkRebuildInterval
RebuildWheneverDue(eng) == eng.ticksSinceNetworkRebuild >= NetworkRebuildInterval
RebuildAfterInterval(eng) ==
  eng.networkDirty /\ eng.ticksSinceNetworkRebuild > NetworkRebuildInterval
RebuildDue(eng) ==
  eng.networkDirty /\ eng.ticksSinceNetworkRebuild >= NetworkRebuildInterval

EngineLog0 ==
  [op |-> "new", rebuilt |-> FALSE, before |-> NewEngine, networkBefore |-> EmptyNetwork,
   sinceBuild |-> 0, dirtyTicks |-> 0, edits |-> 0]

EngineInit ==
  /\ QueueIdle
  /\ engine = NewEngine
  /\ engineLog = EngineLog0
  /\ grid = NewGrid
  /\ network = EmptyNetwork
  /\ ts = NewTrafficSimulator("random")
  /\ tsLog = TsLog0
  /\ GpfIdle /\ CmIdle /\ MgrIdle /\ VhIdle

EngineOthers == <<cmVars, mgrVars, gpfVars, vhVars, queueVars>>

\* GameEngine.tick(): the counter, the rebuild when it is due, then
\* trafficSimulator.update() on the network as it then is
EngineTick ==
  /\ engine.ticksSinceNetworkRebuild < MaxIdleTicks
  /\ LET counted == [engine EXCEPT !.ticksSinceNetworkRebuild = @ + 1]
          due == RebuildDue(counted)
     IN /\ engine' = IF due THEN RebuildNetwork(counted) ELSE counted
        /\ network' = IF due THEN BuildFromGrid(grid) ELSE network
        /\ UpdateSpawning(IF due THEN BuildFromGrid(grid) ELSE network)
        /\ engineLog' = [engineLog EXCEPT
                           !.op = "tick", !.rebuilt = due, !.before = engine,
                           !.networkBefore = network,
                           !.sinceBuild = IF due THEN 0 ELSE @ + 1,
                           !.dirtyTicks = IF due \/ ~engine.networkDirty THEN 0 ELSE @ + 1]
  /\ UNCHANGED EngineOthers

\* InputHandler.applyTool with a road tool, or with the bulldozer on a road
\* cell, and the onRoadChanged callback of main.ts: markNetworkDirty(),
\* rebuildNetwork()
EngineRoadChanged ==
  /\ engineLog.edits < MaxEngineEdits
  /\ \E c \in DOMAIN grid, tool \in {"road", "bulldoze"} :
       /\ tool = "bulldoze" => IsRoad(grid[c])
       /\ grid' = IF tool = "road" THEN PlaceRoad(grid, c[1], c[2], "small")
                  ELSE ClearCell(grid, c[1], c[2])
       /\ network' = BuildFromGrid(grid')
  /\ engine' = RebuildNetwork(MarkNetworkDirty(engine))
  /\ engineLog' = [engineLog EXCEPT
                     !.op = "roadChanged", !.rebuilt = TRUE, !.before = engine,
                     !.networkBefore = network, !.sinceBuild = 0, !.dirtyTicks = 0,
                     !.edits = @ + 1]
  /\ UNCHANGED <<tsVars, EngineOthers>>

\* key 0 of main.ts: the empty template clears every cell, then markNetworkDirty()
EngineApplyEmptyTemplate ==
  /\ grid # NewGrid
  /\ grid' = [c \in DOMAIN grid |-> Clear(grid[c])]
  /\ engine' = MarkNetworkDirty(engine)
  /\ engineLog' = [engineLog EXCEPT
                     !.op = "markNetworkDirty", !.rebuilt = FALSE, !.before = engine,
                     !.networkBefore = network,
                     !.dirtyTicks = IF engine.networkDirty THEN @ ELSE 0]
  /\ UNCHANGED <<network, tsVars, EngineOthers>>

\* key X of main.ts: rebuildNetwork()
EngineRebuildNetwork ==
  /\ engineLog.op # "rebuildNetwork"
  /\ network' = BuildFromGrid(grid)
  /\ engine' = RebuildNetwork(engine)
  /\ engineLog' = [engineLog EXCEPT
                     !.op = "rebuildNetwork", !.rebuilt = TRUE, !.before = engine,
                     !.networkBefore = network, !.sinceBuild = 0, !.dirtyTicks = 0]
  /\ UNCHANGED <<grid, tsVars, EngineOthers>>

EngineNext ==
  \/ EngineTick \/ EngineRoadChanged \/ EngineApplyEmptyTemplate \/ EngineRebuildNetwork

SpecEngine == EngineInit /\ [][EngineNext]_vars

EngineRuns == engine # NoEngine
Ticked == EngineRuns /\ engineLog.op = "tick"

(* C31: tick() rebuilds the road graph exactly when the network is marked
   dirty and, this tick counted, at least networkRebuildInterval ticks have
   passed since the last rebuild of any kind (or since the engine was made);
   a tick on a network that is not dirty leaves graph, flag and count of the
   engine as they are but for the count going up by one; after every
   rebuild, by tick() or by rebuildNetwork(), the flag is clear and the
   counter is 0. *)
C31_RateLimitedRebuild ==
  EngineRuns =>
    /\ Ticked =>
         /\ engineLog.rebuilt =
              ( /\ engineLog.before.networkDirty
                /\ engineLog.before.ticksSinceNetworkRebuild + 1 >= NetworkRebuildInterval )
         /\ ~engineLog.before.networkDirty =>
              /\ ~engineLog.rebuilt
              /\ network = engineLog.networkBefore
              /\ ~engine.networkDirty
         /\ ~engineLog.rebuilt =>
              /\ network = engineLog.networkBefore
              /\ engine.networkDirty = engineLog.before.networkDirty
              /\ engine.ticksSinceNetworkRebuild =
                   engineLog.before.ticksSinceNetworkRebuild + 1
    /\ engineLog.rebuilt =>
         /\ ~engine.networkDirty
         /\ engine.ticksSinceNetworkRebuild = 0
         /\ network = BuildFromGrid(grid)
    /\ engine.ticksSinceNetworkRebuild = engineLog.sinceBuild

\* a tick rebuilt the graph, NetworkRebuildInterval ticks after the rebuild
\* before it, and the rebuild dropped the nodes of cells that the empty
\* template had cleared
C31_Witness ==
  /\ Ticked /\ engineLog.rebuilt
  /\ engineLog.before.ticksSinceNetworkRebuild + 1 = NetworkRebuildInterval
  /\ engineLog.networkBefore # EmptyNetwork
  /\ network # engineLog.networkBefore

(* C32: while the network is marked dirty fewer than networkRebuildInterval
   ticks are processed without a rebuild, so the graph is rebuilt at the
   latest by the networkRebuildInterval-th tick after markNetworkDirty();
   and a path request that trafficSimulator.update() makes in a tick is for
   nodes of the graph as the last rebuild left it, built from the grid of
   that moment, a rebuild of the same tick included; on a graph rebuilt
   with fewer than two nodes no request is made. *)
C32_RebuiltWithinInterval ==
  EngineRuns =>
    /\ engine.networkDirty => engineLog.dirtyTicks < NetworkRebuildInterval
    /\ (Ticked /\ tsLog.attempts > 0 /\ tsLog.request # NoRequest) =>
         /\ tsLog.request.from \in DOMAIN network.nodes
         /\ tsLog.request.to \in DOMAIN network.nodes
         /\ tsLog.request.connected \subseteq DOMAIN network.nodes
         /\ engineLog.rebuilt =>
              \A id \in {tsLog.request.from, tsLog.request.to} \cup tsLog.request.connected :
                grid[id].type = "road"
    /\ (Ticked /\ tsLog.attempts > 0 /\ Len(network.nodeOrder) < 2) =>
         tsLog.request = NoRequest

\* the network was dirty for NetworkRebuildInterval - 1 ticks and the next
\* tick rebuilt it; the spawn tried in that tick made no request, although
\* the graph before the rebuild had nodes to ask for
C32_Witness ==
  /\ Ticked /\ engineLog.rebuilt
  /\ engineLog.before.networkDirty
  /\ engineLog.dirtyTicks = 0
  /\ engineLog.before.ticksSinceNetworkRebuild + 1 = NetworkRebuildInterval
  /\ \E id \in DOMAIN engineLog.networkBefore.nodes : id \notin DOMAIN network.nodes
  /\ Len(engineLog.networkBefore.nodeOrder) >= 2
  /\ tsLog.attempts > 0 /\ tsLog.request = NoRequest

(* ------------------------------------------------------------------ *)
(* SpecQueue: one PriorityQueue (src/unnamed/part_012) under enqueue    *)
(* and dequeue calls; the value of an item is the number of the         *)
(* enqueue call that added it                                           *)
(* ------------------------------------------------------------------ *)
\* the enqueue calls of a run
MaxEnqueues == 5

\* the priorities the path finders use: f-scores, Infinity among them
QueuePriorities == {0, 1, 2, Infinity}

QueueInit ==
  /\ items = <<>>
  /\ queueLog = [op |-> "new", returned |-> Undefined, before |-> <<>>, enqueued |-> 0]
  /\ EngIdle /\ CityIdle /\ GpfIdle /\ CmIdle /\ MgrIdle /\ VhIdle /\ TsIdle

QueueOthers == <<cmVars, cityVars, mgrVars, gpfVars, vhVars, tsVars, engVars>>

\* PriorityQueue.enqueue(value, priority)
QueueEnqueue ==
  /\ queueLog.enqueued < MaxEnqueues
  /\ \E priority \in QueuePriorities :
       items' = Enqueue(items, queueLog.enqueued + 1, priority)
  /\ queueLog' = [op |-> "enqueue", returned |-> Undefined, before |-> items,
                  enqueued |-> queueLog.enqueued + 1]
  /\ UNCHANGED QueueOthers

\* PriorityQueue.dequeue()
QueueDequeue ==
  /\ queueLog.op # "dequeue" \/ queueLog.before # <<>>
  /\ items' = Dequeue(items).items
  /\ queueLog' = [queueLog EXCEPT !.op = "dequeue", !.returned = Dequeue(items).value,
                                  !.before = items]
  /\ UNCHANGED QueueOthers

QueueNext == QueueEnqueue \/ QueueDequeue

SpecQueue == QueueInit /\ [][QueueNext]_vars

QueueUsed == queueLog # NoCall
Dequeued == QueueUsed /\ queueLog.op = "dequeue"

(* C33: after any sequence of enqueue and dequeue calls the items are in
   non-decreasing order of priority, items of equal priority in the order
   in which they were enqueued; dequeue returns the value of an item of
   least priority, the one enqueued first among those of that priority,
   and removes that item only; on an empty queue it returns undefined and
   the queue stays empty. *)
C33_QueueOrder ==
  QueueUsed =>
    /\ \A i, j \in 1..Len(items) :
         i < j => /\ items[i].priority <= items[j].priority
                  /\ items[i].priority = items[j].priority =>
                       items[i].value < items[j].value
    /\ (Dequeued /\ queueLog.before # <<>>) =>
         \E k \in 1..Len(queueLog.before) :
           /\ queueLog.returned = queueLog.before[k].value
           /\ \A n \in 1..Len(queueLog.before) :
                /\ queueLog.before[k].priority <= queueLog.before[n].priority
                /\ queueLog.before[k].priority = queueLog.before[n].priority =>
                     queueLog.before[k].value <= queueLog.before[n].value
           /\ Len(items) = Len(queueLog.before) - 1
           /\ {items[n] : n \in 1..Len(items)} =
                {queueLog.before[n] : n \in 1..Len(queueLog.before)} \ {queueLog.before[k]}
    /\ (Dequeued /\ queueLog.before = <<>>) =>
         queueLog.returned = Undefined /\ items = <<>>

\* dequeue returned the earlier of two items of the same priority, passing
\* over an item that was enqueued before both with a higher priority
C33_Witness ==
  /\ Dequeued
  /\ \E a, b, c \in 1..Len(queueLog.before) :
       /\ queueLog.returned = queueLog.before[a].value
       /\ queueLog.before[b].priority = queueLog.before[a].priority
       /\ queueLog.before[b].value > queueLog.before[a].value
       /\ queueLog.before[c].priority > queueLog.before[a].priority
       /\ queueLog.before[c].value < queueLog.before[a].value

(* ------------------------------------------------------------------ *)
(* SpecFleet: the TrafficSimulator that spawns at random, over a fixed  *)
(* road layout, constructed with a path finder that returns the route   *)
(* along the road.  (With the PathFinding of this repository no vehicle *)
(* is ever made: TsNeverHasVehicle.)                                    *)
(* ------------------------------------------------------------------ *)
\* vehicles spawned in a run
MaxSpawned == 2
\* update() is called until a vehicle has this totalTravelTime
MaxTravelTime == 24
\* the maxVehicles set by setMaxVehicles before a run, when it is not the default
SmallFleet == 1

\* the nodes of a shortest walk along the connections from at to endId that
\* avoids the nodes of visited, <<>> when there is none
RECURSIVE Walk(_, _, _, _)
Walk(net, at, endId, visited) ==
  IF at = endId THEN <<at>>
  ELSE LET onward == {n \in Range(GetNeighbors(net, at)) \ (visited \cup {at}) :
                        Walk(net, n, endId, visited \cup {at}) # <<>>}
       IN IF onward = {} THEN <<>>
          ELSE LET n == CHOOSE n \in onward : \A m \in onward :
                          Len(Walk(net, n, endId, visited \cup {at}))
                            <= Len(Walk(net, m, endId, visited \cup {at}))
               IN <<at>> \o Walk(net, n, endId, visited \cup {at})

\* the cost of the edges along nodes, from node i on
RECURSIVE RouteCost(_, _, _)
RouteCost(net, nodes, i) ==
  IF i >= Len(nodes) THEN 0
  ELSE GetEdgeBetween(net, nodes[i], nodes[i + 1]).cost + RouteCost(net, nodes, i + 1)

\* the Path a findPathBetweenNodes returns that follows the edges
Route(net, startId, endId) ==
  LET nodes == Walk(net, startId, endId, {}) IN
  IF startId \notin DOMAIN net.nodes \/ endId \notin DOMAIN net.nodes \/ nodes = <<>>
    THEN NoPath
    ELSE [nodes |-> nodes, totalCost |-> RouteCost(net, nodes, 1),
          distance |-> PathDistance(net, nodes, 1), exists |-> TRUE]

\* tsLog of SpecFleet: route, the two nodes the spawns of the run go between,
\* and found, what findPathBetweenNodes returns for them;
\* of the last update(): wanted, whether Math.random() < spawnRate; spawned,
\* the id of the vehicle made (<<>> for none); before, the active set at the
\* call; arrivedNow, the ids of the vehicles that became ARRIVED
FleetLog0(a, b) ==
  [route |-> <<a, b>>, wanted |-> FALSE, spawned |-> <<>>, before |-> <<>>,
   arrivedNow |-> <<>>, found |-> <<>>]

\* what the path finder returns for the nodes a run spawns between
Routes(net, a, b) ==
  [ends \in {<<1, 2>>, <<2, 1>>, <<1, 1>>} |->
     Route(net, <<a, b>>[ends[1]], <<a, b>>[ends[2]])]

FleetInit ==
  /\ EngIdle /\ QueueIdle
  /\ grid \in {RowLayout, ULayout}
  /\ network = BuildFromGrid(grid)
  /\ \E max \in {SmallFleet, DefaultMaxVehicles} :
       ts = SetMaxVehicles(NewTrafficSimulator("random"), max)
  /\ \E i, j \in 1..Len(GetAllNodes(network)) :
       /\ i < j
       /\ tsLog = [FleetLog0(GetAllNodes(network)[i], GetAllNodes(network)[j])
                    EXCEPT !.found = Routes(network, GetAllNodes(network)[i],
                                            GetAllNodes(network)[j])]
  /\ GpfIdle /\ CmIdle /\ MgrIdle /\ VhIdle

\* TrafficSimulator.update() of the version that spawns at random
FleetUpdate ==
  /\ ts # NoSimulator
  /\ \A id \in DOMAIN ts.vehicles : ts.vehicles[id].totalTravelTime < MaxTravelTime
  /\ \E wanted \in BOOLEAN :
       IF wanted /\ Cardinality(DOMAIN ts.vehicles) < ts.maxVehicles
         THEN /\ ts.totalVehiclesSpawned < MaxSpawned
              /\ \E ends \in {<<1, 2>>, <<2, 1>>, <<1, 1>>} :
                   LET startId == tsLog.route[ends[1]]
                       endId == tsLog.route[ends[2]]
                       found == tsLog.found[ends]
                       tried == SpawnWithPath(ts, network, startId, endId, found, "car", 50)
                   IN IF tried.id = <<>>
                        THEN /\ ts' = UpdateAndRemove(ts, grid)
                             /\ tsLog' = [tsLog EXCEPT
                                  !.wanted = TRUE, !.spawned = <<>>,
                                  !.before = ts.vehicles,
                                  !.arrivedNow =
                                     UpdateVehicles(ts.vehicles, ts.order, grid, 1, <<>>).arrived]
                        ELSE \E type \in {"car", "truck"}, ratio \in {50} :
                               LET made == SpawnWithPath(ts, network, startId, endId,
                                                         found, type, ratio) IN
                               /\ ts' = UpdateAndRemove(made.sim, grid)
                               /\ tsLog' = [tsLog EXCEPT
                                    !.wanted = TRUE, !.spawned = made.id,
                                    !.before = ts.vehicles,
                                    !.arrivedNow =
                                       UpdateVehicles(made.sim.vehicles, made.sim.order,
                                                      grid, 1, <<>>).arrived]
         ELSE /\ ts' = UpdateAndRemove(ts, grid)
              /\ tsLog' = [tsLog EXCEPT
                   !.wanted = wanted, !.spawned = <<>>, !.before = ts.vehicles,
                   !.arrivedNow =
                      UpdateVehicles(ts.vehicles, ts.order, grid, 1, <<>>).arrived]
  /\ grid' = UpdateTrafficDensity(grid, ts'.vehicles)
  /\ UNCHANGED <<network, TsOthers>>

FleetNext == FleetUpdate

SpecFleet == FleetInit /\ [][FleetNext]_vars

\* update() keeps being called
SpecFleetFair == SpecFleet /\ WF_vars(FleetUpdate)

FleetRuns == ts # NoSimulator /\ tsLog # NoCall /\ "route" \in DOMAIN tsLog

\* the vehicle the last update() started from: the one of the active set
\* at the call or, for the vehicle spawned in the call, the one just made
StartedFrom(id) ==
  IF id \in DOMAIN tsLog.before THEN tsLog.before[id]
  ELSE [ts.vehicles[id] EXCEPT !.totalTravelTime = 0, !.currentPathIndex = 0,
                               !.targetPosition = @]

\* every vehicle of the active set has the path its spawn found, and
\* the last update() moved it by one Vehicle.update()
CreatedWithPath ==
  \A id \in DOMAIN ts.vehicles :
    /\ ts.vehicles[id].path # NullPath
    /\ ts.vehicles[id].path.exists
    /\ Len(ts.vehicles[id].path.nodes) >= 2
AdvancedOnce ==
  \A id \in DOMAIN ts.vehicles :
    /\ ts.vehicles[id].totalTravelTime = StartedFrom(id).totalTravelTime + 1
    /\ id \in DOMAIN tsLog.before =>
         /\ ts.vehicles[id].position = VehicleUpdate(tsLog.before[id]).position
         /\ ts.vehicles[id].currentPathIndex
              = VehicleUpdate(tsLog.before[id]).currentPathIndex
    /\ id \notin DOMAIN tsLog.before =>
         /\ id = tsLog.spawned
         /\ ts.vehicles[id].currentPathIndex = 1

(* C34 as stated: a vehicle is created only with a resolved path and is
   advanced exactly once per tick; a vehicle that reaches ARRIVED during
   tick t is still in the active set at the end of tick t (and is removed
   during tick t+1). *)
C34_ArrivedKeptOneTick ==
  FleetRuns =>
    /\ CreatedWithPath
    /\ AdvancedOnce
    /\ \A i \in 1..Len(tsLog.arrivedNow) : tsLog.arrivedNow[i] \in DOMAIN ts.vehicles

(* C34, amended: a vehicle is created only with a resolved path and is
   advanced exactly once per update(); a vehicle that reaches ARRIVED during
   an update() is removed from the active set by that same update(), so that
   no vehicle of the active set is ARRIVED after it, and every other vehicle
   stays in the active set. *)
C34_ArrivedRemovedSameTick ==
  FleetRuns =>
    /\ CreatedWithPath
    /\ AdvancedOnce
    /\ \A i \in 1..Len(tsLog.arrivedNow) : tsLog.arrivedNow[i] \notin DOMAIN ts.vehicles
    /\ \A id \in DOMAIN ts.vehicles : ~VehicleHasArrived(ts.vehicles[id])
    /\ DOMAIN ts.vehicles
         = (DOMAIN tsLog.before
              \cup (IF tsLog.spawned = <<>> THEN {} ELSE {tsLog.spawned}))
           \ Range(tsLog.arrivedNow)

\* an update() in which one vehicle became ARRIVED while another, advanced
\* by the same update(), stays in the active set
C34_Witness ==
  /\ FleetRuns
  /\ Len(tsLog.arrivedNow) = 1
  /\ tsLog.arrivedNow[1] \in DOMAIN tsLog.before
  /\ \E id \in DOMAIN ts.vehicles :
       /\ id \in DOMAIN tsLog.before
       /\ ts.vehicles[id].position # tsLog.before[id].position

\* vehicle id stands still for good: it is MOVING with speed 0 where update()
\* takes its speed down again, so that further update() calls change nothing
\* but its totalTravelTime
Standstill(id) ==
  /\ id \in DOMAIN ts.vehicles
  /\ ts.vehicles[id].state = "moving"
  /\ ts.vehicles[id].speed = 0
  /\ LET next == UpdateAndRemove(ts, grid) IN
       /\ DOMAIN next.vehicles = DOMAIN ts.vehicles
       /\ \A o \in DOMAIN ts.vehicles :
            /\ next.vehicles[o].position = ts.vehicles[o].position
            /\ next.vehicles[o].targetPosition = ts.vehicles[o].targetPosition
            /\ next.vehicles[o].speed = ts.vehicles[o].speed
       /\ UpdateTrafficDensity(grid, next.vehicles) = grid

\* a run stops calling update() only for a vehicle that stands still for good
StopsAtStandstillOnly ==
  FleetRuns =>
    \A id \in DOMAIN ts.vehicles :
      ts.vehicles[id].totalTravelTime >= MaxTravelTime => Standstill(id)

\* the claim of C35 as a temporal property of SpecFleetFair: under update()
\* being called for ever, a vehicle of the active set is eventually removed
EveryVehicleArrives ==
  \A n \in 0..(MaxSpawned - 1) :
    (FleetRuns /\ <<"v", n>> \in DOMAIN ts.vehicles)
      ~> (<<"v", n>> \notin DOMAIN ts.vehicles)

(* C35: with a fixed road layout and any number of vehicles in the active
   set, every vehicle eventually reaches ARRIVED and is removed: the local
   speed rules never leave a vehicle, or a group of vehicles, in state MOVING
   with speed 0 forever.  No reachable state has a vehicle that stands still
   for good. *)
C35_NoStandstill == FleetRuns => \A id \in DOMAIN ts.vehicles : ~Standstill(id)

(* C38: after any sequence of update() calls (spawning, moving, removing)
   without clearVehicles(), totalVehiclesSpawned = totalVehiclesArrived + the
   number of vehicles in the active set, the vehicle ids are pairwise
   distinct (a new vehicle gets an id no vehicle had before), and the active
   set never holds more than maxVehicles vehicles. *)
C38_FleetAccounting ==
  FleetRuns =>
    /\ ts.totalVehiclesSpawned
         = ts.totalVehiclesArrived + Cardinality(DOMAIN ts.vehicles)
    /\ \A id \in DOMAIN ts.vehicles :
         ts.vehicles[id].id = id /\ id[2] < ts.totalVehiclesSpawned
    /\ Len(ts.order) = Cardinality(DOMAIN ts.vehicles)
    /\ Range(ts.order) = DOMAIN ts.vehicles
    /\ tsLog.spawned # <<>> =>
         /\ tsLog.spawned \notin DOMAIN tsLog.before
         /\ tsLog.spawned[2] = ts.totalVehiclesSpawned - 1
    /\ Cardinality(DOMAIN ts.vehicles) <= ts.maxVehicles

\* after one vehicle arrived and was removed, an update() that would have
\* spawned found the active set full and moved the vehicle in it
C38_Witness ==
  /\ FleetRuns
  /\ ts.totalVehiclesArrived >= 1
  /\ tsLog.wanted /\ tsLog.spawned = <<>>
  /\ Cardinality(DOMAIN tsLog.before) = ts.maxVehicles
  /\ Cardinality(DOMAIN ts.vehicles) = ts.maxVehicles

(* ------------------------------------------------------------------ *)
(* SpecGrid: a Grid edited by placeRoad, clearCell and setZone, at      *)
(* positions on and off the grid                                        *)
(* ------------------------------------------------------------------ *)
\* edits made in a run
MaxGridEdits == 3

\* the positions of the calls: every cell and two positions off the grid
CallPositions == DOMAIN NewGrid \cup {<<-1, 0>>, <<GridWidth, GridHeight - 1>>}

\* calls of SpecGrid: of the last call, op, at (its position), returned and
\* before (the grid at the call); edits, the number of calls made
GridInit ==
  /\ EngIdle /\ QueueIdle
  /\ grid \in {NewGrid, RowLayout, ULayout}
  /\ network = EmptyNetwork
  /\ pathCache = <<>>
  /\ pq = [kind |-> "none"]
  /\ memo = [pair |-> NoCall, last |-> NoCall]
  /\ calls = [op |-> "none", at |-> <<0, 0>>, returned |-> TRUE, before |-> grid,
              edits |-> 0]
  /\ CmIdle /\ MgrIdle /\ VhIdle /\ TsIdle

\* Grid.placeRoad(x, y, roadType)
GridPlaceRoad ==
  /\ calls.edits < MaxGridEdits
  /\ \E c \in CallPositions, roadType \in {"small"} :
       /\ grid' = PlaceRoad(grid, c[1], c[2], roadType)
       /\ calls' = [op |-> "placeRoad", at |-> c, returned |-> EditReturns(c[1], c[2]),
                    before |-> grid, edits |-> calls.edits + 1]
  /\ UNCHANGED <<network, pathCache, pq, memo, PathOthers>>

\* Grid.clearCell(x, y)
GridClearCell ==
  /\ calls.edits < MaxGridEdits
  /\ \E c \in CallPositions :
       /\ grid' = ClearCell(grid, c[1], c[2])
       /\ calls' = [op |-> "clearCell", at |-> c, returned |-> EditReturns(c[1], c[2]),
                    before |-> grid, edits |-> calls.edits + 1]
  /\ UNCHANGED <<network, pathCache, pq, memo, PathOthers>>

\* Grid.setZone(x, y, zoneType)
GridSetZone ==
  /\ calls.edits < MaxGridEdits
  /\ \E c \in CallPositions, zoneType \in {"residential", "none"} :
       /\ grid' = SetZone(grid, c[1], c[2], zoneType)
       /\ calls' = [op |-> "setZone", at |-> c, returned |-> EditReturns(c[1], c[2]),
                    before |-> grid, edits |-> calls.edits + 1]
  /\ UNCHANGED <<network, pathCache, pq, memo, PathOthers>>

GridNext == GridPlaceRoad \/ GridClearCell \/ GridSetZone

SpecGrid == GridInit /\ [][GridNext]_vars

GridEdited == "at" \in DOMAIN calls

\* whether the cell next to c in direction d is a road cell now
RoadBeside(c, d) ==
  CASE d = "north" -> IsRoadAt(grid, c[1], c[2] - 1)
    [] d = "east" -> IsRoadAt(grid, c[1] + 1, c[2])
    [] d = "south" -> IsRoadAt(grid, c[1], c[2] + 1)
    [] d = "west" -> IsRoadAt(grid, c[1] - 1, c[2])

(* C39: after any sequence of placeRoad, clearCell and setZone calls every
   road cell's four roadConnections flags equal whether the corresponding
   4-neighbour is currently a road cell (false at the grid border), every
   non-road cell, a cleared one in particular, has all four flags false, and
   a call with an off-grid position returns false and changes no cell, a
   call on the grid returns true. *)
C39_ConnectionsMatchRoads ==
  GridEdited =>
    /\ \A c \in DOMAIN grid :
         /\ IsRoad(grid[c]) =>
              \A d \in DOMAIN grid[c].roadConnections :
                grid[c].roadConnections[d] = RoadBeside(c, d)
         /\ ~IsRoad(grid[c]) => grid[c].roadConnections = NoConnections
    /\ calls.op # "none" =>
         /\ calls.returned = (calls.at \in DOMAIN grid)
         /\ calls.at \notin DOMAIN grid => grid = calls.before
         /\ (calls.op = "clearCell" /\ calls.at \in DOMAIN grid) =>
              grid[calls.at] = NewCell

\* clearCell has just cleared a road cell that was joined to two road cells,
\* one of which is still joined to another road cell
C39_Witness ==
  /\ GridEdited /\ calls.op = "clearCell" /\ calls.at \in DOMAIN grid
  /\ IsRoad(calls.before[calls.at])
  /\ Cardinality({d \in DOMAIN NoConnections :
                    calls.before[calls.at].roadConnections[d]}) = 2
  /\ \E c \in DOMAIN grid :
       /\ IsRoad(grid[c])
       /\ calls.before[c].roadConnections # grid[c].roadConnections
       /\ grid[c].roadConnections # NoConnections

============================================================================
